---- MODULE Spec2Model ----
(***************************************************************************)
(* Worktree / workspace orchestration layer of src-libs/workspace.         *)
(*                                                                         *)
(* The state is the part of the filesystem and of the repositories' git    *)
(* metadata the Worktree Manager reads and writes, the process-wide lock   *)
(* table WORKTREE_CREATION_LOCKS, and every caller's position inside the   *)
(* async functions of WorktreeManager / WorkspaceManager.  External git    *)
(* commands and filesystem removals are steps that may fail; the code      *)
(* decides what a failure does to the call.                                *)
(***************************************************************************)
EXTENDS Naturals, Sequences, FiniteSets, TLC

\* ------------------------------------------------------------------ bounds
NumTasks == 2
MaxRepos == 2
MaxCommits == 3       \* commits of the history a git-tools call starts from
MaxConflicted == 2    \* files git lists as unmerged in the task worktree
MaxDeltas == 1        \* deltas of the diff get_diffs converts
MaxStatDeltas == 2    \* deltas of a diff whose line stats are extracted
MaxRecords == 3       \* records of the status output get_worktree_status parses
MaxListed == 1        \* entries of an agent's tools list and of its denied_tools list
MaxClones == 2        \* ProtocolPeer handles made, the first one included
MaxLines == 2         \* lines the SDK writes to its stdout
MaxDate == 2          \* distinct commit times of the branches listed

\* ------------------------------------------------------------ the universe
Tasks == 1..NumTasks

\* Paths a caller can pass as repo_path: two ordinary repositories, a bare
\* repository (Repository::open succeeds, workdir() is None) and a path that
\* is no repository (Repository::open fails).
RepoPaths == {"r1", "r2", "rb", "nx"}
Repos == {"r1", "r2", "rb"}
IsRepo(r) == r \in Repos
IsBare(r) == r = "rb"

Branches == {"main", "task"}

\* Worktree path arguments as the caller spells them.  "a/" is "a" with a
\* trailing separator: the same directory (Path equality and canonicalize
\* agree on it), another string.
Spellings == {"a", "a/", "b"}
PathOf(p) == IF p = "a/" THEN "a" ELSE p
Dirs == {PathOf(p) : p \in Spellings}

\* Member names of a workspace; workspace_dir.join(name) is the spelling.
RepoNames == {"a", "b"}
Join(name) == name

RepoInputs == [name : RepoNames, path : {"r1", "r2"}, target_branch : {"main"}]

RECURSIVE SeqsUpTo(_, _)
SeqsUpTo(S, n) ==
    IF n = 0 THEN {<<>>}
    ELSE LET shorter == SeqsUpTo(S, n - 1)
         IN  shorter \cup {Append(s, x) : s \in {q \in shorter : Len(q) = n - 1}, x \in S}

\* Option<T>
None == <<>>
Some(x) == <<x>>

NoArgs == [repo |-> "None", branch |-> "main", path |-> "a", base |-> "main"]
NoWs == [repos |-> <<>>, branch |-> "main", k |-> 0, created |-> <<>>, rb |-> 0]

VARIABLES
    dir,        \* Dirs -> "absent" | r: the directory, and whose checkout it holds
    meta,       \* set of <<r, d>>: r's worktrees/ has an entry whose gitdir links to d
    branches,   \* set of <<r, b>>: local branch b exists in r
    wsdir,      \* the workspace (parent) directory exists
    locks,      \* keys of WORKTREE_CREATION_LOCKS
    held,       \* key -> set of tasks holding that tokio mutex (at most one)
    pc,         \* task -> position
    top,        \* task -> the public function the caller invoked
    cur,        \* task -> arguments of the worktree-level call now running
    rrepo,      \* task -> the repository path the cleanup resolved
    ws,         \* task -> create_workspace's locals
    res,        \* task -> result of the call that returned last ("none" while running)
    recreated,  \* task -> the running ensure_worktree_exists went on to recreate (history)
    again       \* task -> the running ensure_worktree_exists repeats, with the same
                \* arguments, the caller's previous call, which returned Ok (history)

\* batch_cleanup_worktrees
VARIABLES
    cleanups,   \* task -> the slice of WorktreeCleanup it was given
    ci,         \* task -> position of its loop over the slice
    outcomes    \* task -> what each cleanup_worktree call of the loop was given and
                \* returned, in order (history)

batchVars == <<cleanups, ci, outcomes>>

\* git-tools: the repository and the two worktrees a GitService call works on
VARIABLES
    parents,    \* commit -> set of its parent commits (the commit graph)
    refs,       \* [base, task] -> commit: refs/heads/<base_branch>, refs/heads/<task_branch>
    identity,   \* user.name and user.email are configured
    basewt,     \* the worktree at base_worktree_path: the branch checked out, staged changes
    taskwt,     \* the task worktree: operation markers, conflicted files, tracked changes
    gpc,        \* position of the GitService call
    gop,        \* the GitService function called and its locals
    gres,       \* its result: [err, sha]
    cmds        \* the git commands the call has run, each with its outcome (history)

gitVars == <<parents, refs, identity, basewt, taskwt, gpc, gop, gres, cmds>>

\* git-tools: the inputs and outputs of the read-only GitService functions
VARIABLES
    diff,           \* the git2::Diff handed to convert_diff_to_file_diffs: its deltas
    di,             \* deltas diff.foreach has visited
    file_diffs,     \* Vec<Diff> built so far
    repo_branches,  \* get_all_branches: the repository's local and remote branches and HEAD
    listed          \* get_all_branches: the Vec<GitBranch> built so far

diffVars == <<diff, di, file_diffs>>
listVars == <<repo_branches, listed>>

\* git-tools: GitCli::get_worktree_status
VARIABLES
    parts,      \* the records of the status output, as out.split(|b| *b == 0) yields them
    pn,         \* records the iterator has handed out
    worktree_status  \* uncommitted_tracked, untracked and entries built so far

statusVars == <<parts, pn, worktree_status>>

\* src-tauri approvals: ApprovalManager, for one agent id
VARIABLES
    config_cache,    \* the agent's entry of config_cache, None when there is none
    approval_modes,  \* the agent's entry of approval_modes, None when there is none
    approval         \* the approval query made last: function, tool name, result

approvalVars == <<config_cache, approval_modes, approval>>

\* src-tauri protocol: ProtocolPeer and the read loop task it spawns
VARIABLES
    running,    \* the shared flag running
    notified,   \* the Notified future of the read loop's select!: "none", "waiting", "fired"
    loop_pc,    \* position of the read loop task
    sdk,        \* the SDK's stdout: "open", "closed"
    stdout,     \* lines the SDK has written and the loop has not read
    written,    \* lines the SDK has written
    sent,       \* control requests sent on request_tx
    handles,    \* the clones of the ProtocolPeer that are alive
    made,       \* clones made so far
    stop_pc     \* position of the stop() call, with the handle it was called on

peerVars == <<running, notified, loop_pc, sdk, stdout, written, sent, handles, made, stop_pc>>

\* State of the components that no worktree function and no GitService
\* function reads or writes.
otherVars == <<statusVars, approvalVars, peerVars>>

\* State that no step of the worktree functions themselves reads or writes.
elsewhere == <<batchVars, gitVars, diffVars, listVars, otherVars>>

\* The state of the workspace crate.
workspaceVars ==
    <<dir, meta, branches, wsdir, locks, held, pc, top, cur, rrepo, ws, res, recreated, again,
      batchVars>>

\* State that no git command of merge_changes, abort_conflicts, rebase_branch
\* or detect_conflict_op reads or writes.
unrelated == <<workspaceVars, diffVars, listVars, otherVars>>

vars == <<workspaceVars, gitVars, diffVars, listVars, otherVars>>
fsVars == <<dir, meta, branches, wsdir>>
lockVars == <<locks, held>>

InitFs ==
    /\ dir = [d \in Dirs |-> "absent"]
    /\ meta = {}
    /\ branches = {<<r, "main">> : r \in Repos}
    /\ wsdir = FALSE

InitTasks ==
    /\ locks = {}
    /\ held = [k \in Spellings |-> {}]
    /\ top = [t \in Tasks |-> "idle"]
    /\ cur = [t \in Tasks |-> NoArgs]
    /\ rrepo = [t \in Tasks |-> "None"]
    /\ ws = [t \in Tasks |-> NoWs]
    /\ res = [t \in Tasks |-> "none"]
    /\ recreated = [t \in Tasks |-> FALSE]
    /\ again = [t \in Tasks |-> FALSE]

InitBatch ==
    /\ cleanups = [t \in Tasks |-> <<>>]
    /\ ci = [t \in Tasks |-> 0]
    /\ outcomes = [t \in Tasks |-> <<>>]

NoMarkers == [Rebase |-> FALSE, Merge |-> FALSE, CherryPick |-> FALSE, Revert |-> FALSE]
NoResult == [err |-> "none", sha |-> 0, op |-> "None"]
NoOp == [name |-> "none", sha |-> 0, files |-> 0, out |-> <<>>, start |-> 0]

\* No GitService call is running.
InitCall ==
    /\ gpc = "idle"
    /\ gop = NoOp
    /\ gres = NoResult
    /\ cmds = <<>>

\* No branch list is being built.
InitList ==
    /\ repo_branches = [locals |-> <<>>, remotes |-> <<>>, current |-> <<>>]
    /\ listed = <<>>

\* No status output is being parsed.
NoStatus == [uncommitted_tracked |-> 0, untracked |-> 0, entries |-> <<>>]

InitStatusIdle ==
    /\ parts = <<>>
    /\ pn = 0
    /\ worktree_status = NoStatus

\* ApprovalManager::new(), l.53-60
\* No approval query has been made; result is "none" while one is being answered.
NoApproval == [fn |-> "none", tool |-> <<>>, result |-> "idle"]

InitApproval ==
    /\ config_cache = None
    /\ approval_modes = None
    /\ approval = NoApproval

NoStop == [at |-> "idle", on |-> 0]

\* ProtocolPeer::new, l.73-95: one handle, the read loop spawned, the SDK's
\* stdout open with nothing written yet.
InitPeer ==
    /\ running = TRUE
    /\ notified = "none"
    /\ loop_pc = "check"
    /\ sdk = "open"
    /\ stdout = <<>>
    /\ written = 0
    /\ sent = 0
    /\ handles = {1}
    /\ made = 1
    /\ stop_pc = NoStop

\* The other components are idle.
InitOther ==
    /\ InitStatusIdle
    /\ InitApproval
    /\ InitPeer

\* No diff is being converted and no branch list is being built.
InitPure ==
    /\ diff = <<>>
    /\ di = 0
    /\ file_diffs = <<>>
    /\ InitList

\* A repository of one commit with clean worktrees, nothing running on it.
InitGit ==
    /\ parents = [c \in {1} |-> {}]
    /\ refs = [base |-> 1, task |-> 1]
    /\ identity = TRUE
    /\ basewt = [branch |-> "base", staged |-> FALSE]
    /\ taskwt = [markers |-> NoMarkers, conflicted |-> 0, tracked |-> {}]
    /\ InitCall


\* ------------------------------------------------- pure parts of the code

\* Mutant: one lock for the whole table.
LockKeyM(p) == "a"

\* worktree_path.to_string_lossy().to_string(): the key of the lock table is
\* the path argument as spelled.
LockKey(p) == p

\* Mutant: lock() returns at once, held or not.
LockAvailableM(k) == TRUE

\* tokio::sync::Mutex::lock().await returns only while nobody holds the mutex.
LockAvailable(k) == held[k] = {}

\* Path::exists()
Exists(d) == dir[d] # "absent"

\* Mutant: the back-link is compared with the path as spelled, neither side
\* canonicalized.
FindWorktreeGitInternalNameM(r, p) == <<r, p>> \in meta

\* find_worktree_git_internal_name: an entry of r's worktrees/ whose gitdir
\* back-link, canonicalized, equals the canonicalized worktree path.
FindWorktreeGitInternalName(r, p) == <<r, PathOf(p)>> \in meta

\* Mutant: the validity check never recognises an existing worktree.
IsWorktreeProperlySetUpM(r, p) == "false"

\* Mutant: the validity check stops at the directory.
IsWorktreeProperlySetUpDirOnly(r, p) == IF Exists(PathOf(p)) THEN "true" ELSE "false"

\* is_worktree_properly_set_up: "true" | "false" | "err"
IsWorktreeProperlySetUp(r, p) ==
    IF ~Exists(PathOf(p)) THEN "false"
    ELSE IF ~IsRepo(r) THEN "err"
    ELSE IF FindWorktreeGitInternalName(r, p) THEN "true"
    ELSE "false"

\* Mutant: the directory removal is best-effort as well (`let _ =`).
PropagatesFailureM(step) == FALSE

\* comprehensive_cleanup: which failing step ends the cleanup with an error
\* (`?`), the others being dropped with `let _ =`.
PropagatesFailure(step) == step = "rmdir"

\* Mutant: the inference gives up.
InferGitRepoPathNever(p) == "None"

\* infer_git_repo_path: `git rev-parse --git-common-dir` run inside the
\* worktree answers only for a linked checkout whose metadata is still there.
InferGitRepoPath(p) ==
    LET d == PathOf(p)
    IN  IF dir[d] \in Repos /\ <<dir[d], d>> \in meta THEN dir[d] ELSE "None"

\* cleanup_worktree: the repository path given, else the inferred one.
ResolvedRepoPath(t) ==
    IF cur[t].repo # "None" THEN cur[t].repo ELSE InferGitRepoPath(cur[t].path)

\* ------------------------------------------------ the git executable (env)
\* `git worktree remove --force`: needs the registration, and the directory
\* to be that registration's checkout or gone.
GitRemoveCan(r, d) == <<r, d>> \in meta /\ dir[d] \in {r, "absent"}

\* Mutant: the prune drops every registration of the repository.
PrunedAll(r) == {<<r, d>> : d \in Dirs}

\* Mutant: the prune passes over the registration of directory a.
PrunedKeepsA(r) == {<<r, d>> : d \in {x \in Dirs : dir[x] = "absent" /\ x # "a"}}

\* `git worktree prune`: drops every registration of r whose checkout's .git
\* file is gone, whatever path it is for.
Pruned(r) == {<<r, d>> : d \in {x \in Dirs : dir[x] = "absent"}}

\* `git worktree add <path> <branch>`: the branch exists, the path is free and
\* not registered.  (That the branch is checked out nowhere else is not
\* tracked: the attempt may fail in any state.)
GitAddCan(r, b, d) ==
    IsRepo(r) /\ <<r, b>> \in branches /\ dir[d] = "absent" /\ <<r, d>> \notin meta

\* `git worktree move <old> <new>`
GitMoveCan(r, old, new) ==
    /\ <<r, old>> \in meta /\ dir[old] = r
    /\ dir[new] = "absent" /\ <<r, new>> \notin meta

\* --------------------------------------------------------- control helpers
\* The locked function a task is in: cleanup_worktree when the caller invoked
\* it, batch_cleanup_worktrees is looping or create_workspace is rolling back,
\* else ensure_worktree_exists.
Running(t) ==
    IF top[t] \in {"cleanup", "batch"} \/ (top[t] = "workspace" /\ ws[t].rb > 0)
    THEN "cleanup" ELSE "ensure"

\* Where a caller continues when the locked function (or create_worktree's
\* branch step) returns.
AfterCall(t) ==
    IF top[t] = "workspace"
    THEN (IF ws[t].rb = 0 THEN "ws_created" ELSE "ws_rolled")
    ELSE IF top[t] = "batch" THEN "batch_next"
    ELSE "done"

\* Mutant: the guard outlives the call.
ReturnKeepsGuard(t, r) ==
    /\ res' = [res EXCEPT ![t] = r]
    /\ pc' = [pc EXCEPT ![t] = AfterCall(t)]
    /\ UNCHANGED held

\* The locked function returns r: the guard is dropped, the caller goes on.
Return(t, r) ==
    /\ held' = [held EXCEPT ![LockKey(cur[t].path)] = {}]
    /\ res' = [res EXCEPT ![t] = r]
    /\ pc' = [pc EXCEPT ![t] = AfterCall(t)]

Goto(t, label) ==
    /\ pc' = [pc EXCEPT ![t] = label]
    /\ UNCHANGED <<held, res>>

\* A caller at `from` invokes the public function op.
Begin(t, from, op, args, label) ==
    /\ pc[t] = from
    /\ top' = [top EXCEPT ![t] = op]
    /\ cur' = [cur EXCEPT ![t] = args]
    /\ pc' = [pc EXCEPT ![t] = label]
    /\ res' = [res EXCEPT ![t] = "none"]
    /\ recreated' = [recreated EXCEPT ![t] = FALSE]
    /\ UNCHANGED <<fsVars, lockVars, rrepo, again>>
    /\ UNCHANGED elsewhere

\* ------------------------------------------------------------------ calls
CallEnsure(t) ==
    \E r \in RepoPaths, p \in Spellings :
        /\ Begin(t, "idle", "ensure", [repo |-> r, branch |-> "task", path |-> p, base |-> "main"],
                 "lock_entry")
        /\ UNCHANGED ws

CallCleanup(t) ==
    \E r \in RepoPaths \cup {"None"}, p \in Spellings :
        /\ Begin(t, "idle", "cleanup", [repo |-> r, branch |-> "main", path |-> p, base |-> "main"],
                 "lock_entry")
        /\ UNCHANGED ws

CallCreateWorktree(t) ==
    \E r \in {"r1", "r2"}, p \in RepoNames, create_branch \in BOOLEAN :
        /\ Begin(t, "idle", "create", [repo |-> r, branch |-> "task", path |-> p, base |-> "main"],
                 IF create_branch THEN "cw_branch" ELSE "lock_entry")
        /\ UNCHANGED ws

CallMoveWorktree(t) ==
    \E r \in {"r1", "r2"}, old \in Dirs, new \in Dirs :
        /\ old # new
        /\ Begin(t, "idle", "move", [repo |-> r, branch |-> "main", path |-> old, base |-> new],
                 "mv_run")
        /\ UNCHANGED ws

CallCreateWorkspace(t) ==
    /\ pc[t] = "idle"
    /\ \E repos \in SeqsUpTo(RepoInputs, MaxRepos) :
        /\ Begin(t, "idle", "workspace", NoArgs, "ws_begin")
        /\ ws' = [ws EXCEPT ![t] = [repos |-> repos, branch |-> "task", k |-> 0,
                                    created |-> <<>>, rb |-> 0]]


\* ----------------------------------------------- create_worktree, l.232-261
\* The branch is created before ensure_worktree_exists is entered: open the
\* repository, find the base branch, repo.branch(name, commit, force = false).
CreateBranch(t) ==
    /\ pc[t] = "cw_branch"
    /\ LET r == cur[t].repo
           ok == IsRepo(r) /\ <<r, cur[t].base>> \in branches
                           /\ <<r, cur[t].branch>> \notin branches
       IN  IF ok
           THEN /\ branches' = branches \cup {<<r, cur[t].branch>>}
                /\ pc' = [pc EXCEPT ![t] = "lock_entry"]
                /\ UNCHANGED res
           ELSE /\ pc' = [pc EXCEPT ![t] = AfterCall(t)]
                /\ res' = [res EXCEPT ![t] = "Git"]
                /\ UNCHANGED branches
    /\ UNCHANGED <<dir, meta, wsdir, lockVars, top, cur, rrepo, ws, recreated, again>>
    /\ UNCHANGED elsewhere

\* Mutant: the table is rebuilt around the entry asked for.
LockEntryFresh(t) ==
    /\ pc[t] = "lock_entry"
    /\ locks' = {LockKey(cur[t].path)}
    /\ pc' = [pc EXCEPT ![t] = "lock_wait"]
    /\ recreated' = [recreated EXCEPT ![t] = FALSE]
    /\ UNCHANGED <<fsVars, held, top, cur, rrepo, ws, res, again>>
    /\ UNCHANGED elsewhere

\* ------------------------- the lock, l.269-280 (ensure) and l.591-602 (cleanup)
\* locks.entry(path_str).or_insert_with(..).clone()
LockEntry(t) ==
    /\ pc[t] = "lock_entry"
    /\ locks' = locks \cup {LockKey(cur[t].path)}
    /\ pc' = [pc EXCEPT ![t] = "lock_wait"]
    /\ recreated' = [recreated EXCEPT ![t] = FALSE]
    /\ UNCHANGED <<fsVars, held, top, cur, rrepo, ws, res, again>>
    /\ UNCHANGED elsewhere

\* let _guard = lock.lock().await
LockAcquire(t) ==
    /\ pc[t] = "lock_wait"
    /\ LockAvailable(LockKey(cur[t].path))
    /\ held' = [held EXCEPT ![LockKey(cur[t].path)] = {t}]
    /\ pc' = [pc EXCEPT ![t] = IF Running(t) = "ensure" THEN "e_check" ELSE "c_resolve"]
    /\ UNCHANGED <<fsVars, locks, top, cur, rrepo, ws, res, recreated, again>>
    /\ UNCHANGED elsewhere

\* ---------------------------------------- ensure_worktree_exists, l.282-290
EnsureCheck(t) ==
    /\ pc[t] = "e_check"
    /\ LET v == IsWorktreeProperlySetUp(cur[t].repo, cur[t].path)
       IN  IF v = "true" THEN Return(t, "ok") /\ UNCHANGED <<rrepo, recreated>>
           ELSE IF v = "err" THEN Return(t, "Git") /\ UNCHANGED <<rrepo, recreated>>
           ELSE /\ Goto(t, "cc_open")
                /\ rrepo' = [rrepo EXCEPT ![t] = cur[t].repo]
                /\ recreated' = [recreated EXCEPT ![t] = TRUE]
    /\ UNCHANGED <<fsVars, locks, top, cur, ws, again>>
    /\ UNCHANGED elsewhere

\* ----------------------------------------------- cleanup_worktree, l.604-615
CleanupResolve(t) ==
    /\ pc[t] = "c_resolve"
    /\ LET r == ResolvedRepoPath(t)
       IN  /\ rrepo' = [rrepo EXCEPT ![t] = r]
           /\ Goto(t, IF r # "None" THEN "cc_open" ELSE "sc")
    /\ UNCHANGED <<fsVars, locks, top, cur, ws, recreated, again>>
    /\ UNCHANGED elsewhere


\* ------------------------------------ comprehensive_cleanup_async, l.480-504
\* A cleanup that ended well hands over to the rest of
\* recreate_worktree_internal (l.384-390) or ends cleanup_worktree (l.617).
CleanupOk(t) ==
    IF Running(t) = "ensure" THEN Goto(t, "e_mkparent") ELSE Return(t, "ok")

\* A step of the cleanup failed: `?` returns the error, `let _ =` goes on.
StepFailed(t, step, next) ==
    IF PropagatesFailure(step) THEN Return(t, "Io") ELSE Goto(t, next)

\* Repository::open(&git_repo_path); for an opened repository
\* comprehensive_cleanup starts with repo.workdir().ok_or_else(..)? (l.511-514).
CleanupOpen(t) ==
    /\ pc[t] = "cc_open"
    /\ IF ~IsRepo(rrepo[t]) THEN Goto(t, "sc")
       ELSE IF IsBare(rrepo[t]) THEN Return(t, "Repository")
       ELSE Goto(t, "cc_remove")
    /\ UNCHANGED <<fsVars, locks, top, cur, rrepo, ws, recreated, again>>
    /\ UNCHANGED elsewhere

\* 1. git worktree remove --force (l.517)
CleanupGitRemove(t) ==
    /\ pc[t] = "cc_remove"
    /\ LET r == rrepo[t]
           d == PathOf(cur[t].path)
       IN  \E ok \in BOOLEAN :
               IF ok /\ GitRemoveCan(r, d)
               THEN /\ meta' = meta \ {<<r, d>>}
                    /\ dir' = [dir EXCEPT ![d] = "absent"]
                    /\ Goto(t, "cc_meta")
               ELSE /\ StepFailed(t, "remove", "cc_meta")
                    /\ UNCHANGED <<dir, meta>>
    /\ UNCHANGED <<branches, wsdir, locks, top, cur, rrepo, ws, recreated, again>>
    /\ UNCHANGED elsewhere

\* 2. force_cleanup_metadata (l.520, l.463-477): delete the entry found.
CleanupMetadata(t) ==
    /\ pc[t] = "cc_meta"
    /\ LET r == rrepo[t]
       IN  \E ok \in BOOLEAN :
               IF ok
               THEN /\ meta' = IF FindWorktreeGitInternalName(r, cur[t].path)
                               THEN meta \ {<<r, PathOf(cur[t].path)>>} ELSE meta
                    /\ Goto(t, "cc_rmdir")
               ELSE /\ StepFailed(t, "meta", "cc_rmdir")
                    /\ UNCHANGED meta
    /\ UNCHANGED <<dir, branches, wsdir, locks, top, cur, rrepo, ws, recreated, again>>
    /\ UNCHANGED elsewhere

\* 3. if worktree_path.exists() { fs::remove_dir_all(worktree_path)?; } (l.523-525)
CleanupRmdir(t) ==
    /\ pc[t] = "cc_rmdir"
    /\ LET d == PathOf(cur[t].path)
       IN  IF ~Exists(d)
           THEN Goto(t, "cc_prune") /\ UNCHANGED dir
           ELSE \E ok \in BOOLEAN :
                   IF ok
                   THEN /\ dir' = [dir EXCEPT ![d] = "absent"]
                        /\ Goto(t, "cc_prune")
                   ELSE /\ StepFailed(t, "rmdir", "cc_prune")
                        /\ UNCHANGED dir
    /\ UNCHANGED <<meta, branches, wsdir, locks, top, cur, rrepo, ws, recreated, again>>
    /\ UNCHANGED elsewhere

\* 4. git worktree prune (l.528), then Ok(()).
CleanupPrune(t) ==
    /\ pc[t] = "cc_prune"
    /\ \E ok \in BOOLEAN :
           IF ok
           THEN /\ meta' = meta \ Pruned(rrepo[t])
                /\ CleanupOk(t)
           ELSE /\ IF PropagatesFailure("prune") THEN Return(t, "Io") ELSE CleanupOk(t)
                /\ UNCHANGED meta
    /\ UNCHANGED <<dir, branches, wsdir, locks, top, cur, rrepo, ws, recreated, again>>
    /\ UNCHANGED elsewhere

\* simple_cleanup (l.568-578): only the directory, and its removal must succeed.
SimpleCleanup(t) ==
    /\ pc[t] = "sc"
    /\ LET d == PathOf(cur[t].path)
       IN  IF ~Exists(d)
           THEN CleanupOk(t) /\ UNCHANGED dir
           ELSE \E ok \in BOOLEAN :
                   IF ok
                   THEN /\ dir' = [dir EXCEPT ![d] = "absent"]
                        /\ CleanupOk(t)
                   ELSE /\ Return(t, "Io")
                        /\ UNCHANGED dir
    /\ UNCHANGED <<meta, branches, wsdir, locks, top, cur, rrepo, ws, recreated, again>>
    /\ UNCHANGED elsewhere


\* ------------------------------------ recreate_worktree_internal, l.384-390
\* tokio::fs::create_dir_all(parent).await?
EnsureMkParent(t) ==
    /\ pc[t] = "e_mkparent"
    /\ \E ok \in BOOLEAN :
           IF ok \/ wsdir
           THEN /\ wsdir' = TRUE
                /\ Goto(t, "e_add1")
           ELSE /\ Return(t, "Io")
                /\ UNCHANGED wsdir
    /\ UNCHANGED <<dir, meta, branches, locks, top, cur, rrepo, ws, recreated, again>>
    /\ UNCHANGED elsewhere

\* What a `git worktree add` that fails half way can leave behind: the
\* directory with its .git file, the registration.
Residues == {{}, {"dir", "meta"}}

\* One `git worktree add` attempt (git_worktree_add, l.437-460): it succeeds
\* and the checkout is there and registered, or it fails, leaving `residue`
\* when it had got past its own checks.
AddAttempt(t, ok, residue) ==
    LET r == cur[t].repo
        d == PathOf(cur[t].path)
        can == GitAddCan(r, cur[t].branch, d)
    IN  IF ok /\ can
           THEN /\ dir' = [dir EXCEPT ![d] = r]
                /\ meta' = meta \cup {<<r, d>>}
           ELSE /\ dir' = IF can /\ "dir" \in residue
                          THEN [dir EXCEPT ![d] = r] ELSE dir
                /\ meta' = IF can /\ "meta" \in residue
                           THEN meta \cup {<<r, d>>} ELSE meta

\* create_worktree_with_retry, first attempt (l.405-418)
EnsureAdd1(t) ==
    /\ pc[t] = "e_add1"
    /\ \E ok \in BOOLEAN, residue \in Residues :
           /\ AddAttempt(t, ok, residue)
           /\ IF ok /\ GitAddCan(cur[t].repo, cur[t].branch, PathOf(cur[t].path))
              THEN /\ Return(t, IF dir'[PathOf(cur[t].path)] # "absent"
                                THEN "ok" ELSE "Repository")
              ELSE /\ Goto(t, "e_retry_meta")
    /\ UNCHANGED <<branches, wsdir, locks, top, cur, rrepo, ws, recreated, again>>
    /\ UNCHANGED elsewhere

\* let _ = Self::force_cleanup_metadata(..) (l.422)
EnsureRetryMeta(t) ==
    /\ pc[t] = "e_retry_meta"
    /\ \E ok \in BOOLEAN :
           IF ok /\ IsRepo(cur[t].repo)
           THEN /\ meta' = IF FindWorktreeGitInternalName(cur[t].repo, cur[t].path)
                           THEN meta \ {<<cur[t].repo, PathOf(cur[t].path)>>} ELSE meta
           ELSE /\ UNCHANGED meta
    /\ Goto(t, "e_retry_rmdir")
    /\ UNCHANGED <<dir, branches, wsdir, locks, top, cur, rrepo, ws, recreated, again>>
    /\ UNCHANGED elsewhere

\* if worktree_path.exists() { fs::remove_dir_all(&worktree_path)?; } (l.423-425)
EnsureRetryRmdir(t) ==
    /\ pc[t] = "e_retry_rmdir"
    /\ LET d == PathOf(cur[t].path)
       IN  IF ~Exists(d)
           THEN Goto(t, "e_add2") /\ UNCHANGED dir
           ELSE \E ok \in BOOLEAN :
                   IF ok
                   THEN /\ dir' = [dir EXCEPT ![d] = "absent"]
                        /\ Goto(t, "e_add2")
                   ELSE /\ Return(t, "Io")
                        /\ UNCHANGED dir
    /\ UNCHANGED <<meta, branches, wsdir, locks, top, cur, rrepo, ws, recreated, again>>
    /\ UNCHANGED elsewhere

\* the retry (l.426-428): a second failure is returned.
EnsureAdd2(t) ==
    /\ pc[t] = "e_add2"
    /\ \E ok \in BOOLEAN, residue \in Residues :
           /\ AddAttempt(t, ok, residue)
           /\ IF ok /\ GitAddCan(cur[t].repo, cur[t].branch, PathOf(cur[t].path))
              THEN Return(t, "ok")
              ELSE Return(t, "Git")
    /\ UNCHANGED <<branches, wsdir, locks, top, cur, rrepo, ws, recreated, again>>
    /\ UNCHANGED elsewhere

\* -------------------------------------------------- move_worktree, l.655-679
\* `git worktree move old new` on the blocking pool; no lock is taken.
MoveRun(t) ==
    /\ pc[t] = "mv_run"
    /\ LET r == cur[t].repo
           old == PathOf(cur[t].path)
           new == PathOf(cur[t].base)
       IN  \E ok \in BOOLEAN :
               IF ok /\ GitMoveCan(r, old, new)
               THEN /\ dir' = [dir EXCEPT ![old] = "absent", ![new] = r]
                    /\ meta' = (meta \ {<<r, old>>}) \cup {<<r, new>>}
                    /\ res' = [res EXCEPT ![t] = "ok"]
               ELSE /\ res' = [res EXCEPT ![t] = "Git"]
                    /\ UNCHANGED <<dir, meta>>
    /\ pc' = [pc EXCEPT ![t] = "done"]
    /\ UNCHANGED <<branches, wsdir, lockVars, top, cur, rrepo, ws, recreated, again>>
    /\ UNCHANGED elsewhere


\* ----------------------------------------------- create_workspace, l.714-769
\* RepoWorktree pushed for a created member (l.746-751).
RepoWorktree(repo) ==
    [repo_name |-> repo.name, source_repo_path |-> repo.path,
     worktree_path |-> Join(repo.name)]

\* WorktreeCleanup::new(wt.worktree_path, Some(wt.source_repo_path)) (l.774-775)
RollbackArgs(wt) ==
    [repo |-> wt.source_repo_path, branch |-> "main", path |-> wt.worktree_path,
     base |-> "main"]

\* Mutant: the workspace directory is created before the list is looked at.
WsBeginM(t) ==
    /\ pc[t] = "ws_begin"
    /\ \E ok \in BOOLEAN :
           IF ~(ok \/ wsdir)
           THEN /\ res' = [res EXCEPT ![t] = "Io"]
                /\ pc' = [pc EXCEPT ![t] = "done"]
                /\ UNCHANGED <<wsdir, ws>>
           ELSE /\ wsdir' = TRUE
                /\ IF ws[t].repos = <<>>
                   THEN /\ res' = [res EXCEPT ![t] = "NoRepositories"]
                        /\ pc' = [pc EXCEPT ![t] = "done"]
                        /\ UNCHANGED ws
                   ELSE /\ ws' = [ws EXCEPT ![t].k = 1]
                        /\ pc' = [pc EXCEPT ![t] = "ws_loop"]
                        /\ UNCHANGED res
    /\ UNCHANGED <<dir, meta, branches, lockVars, top, cur, rrepo, recreated, again>>
    /\ UNCHANGED elsewhere

\* repos.is_empty() -> NoRepositories; create_dir_all(workspace_dir)? (l.719-731)
WsBegin(t) ==
    /\ pc[t] = "ws_begin"
    /\ IF ws[t].repos = <<>>
       THEN /\ res' = [res EXCEPT ![t] = "NoRepositories"]
            /\ pc' = [pc EXCEPT ![t] = "done"]
            /\ UNCHANGED <<wsdir, ws>>
       ELSE \E ok \in BOOLEAN :
               IF ok \/ wsdir
               THEN /\ wsdir' = TRUE
                    /\ ws' = [ws EXCEPT ![t].k = 1]
                    /\ pc' = [pc EXCEPT ![t] = "ws_loop"]
                    /\ UNCHANGED res
               ELSE /\ res' = [res EXCEPT ![t] = "Io"]
                    /\ pc' = [pc EXCEPT ![t] = "done"]
                    /\ UNCHANGED <<wsdir, ws>>
    /\ UNCHANGED <<dir, meta, branches, lockVars, top, cur, rrepo, recreated, again>>
    /\ UNCHANGED elsewhere

\* for repo in repos { create_worktree(&repo.path, branch_name, &worktree_path,
\* &repo.target_branch, true) } (l.733-743); Ok(WorktreeContainer) after the
\* last one (l.765-768).
WsLoop(t) ==
    /\ pc[t] = "ws_loop"
    /\ IF ws[t].k > Len(ws[t].repos)
       THEN /\ res' = [res EXCEPT ![t] = "ok"]
            /\ pc' = [pc EXCEPT ![t] = "done"]
            /\ UNCHANGED cur
       ELSE LET repo == ws[t].repos[ws[t].k]
            IN  /\ cur' = [cur EXCEPT ![t] = [repo |-> repo.path, branch |-> ws[t].branch,
                                              path |-> Join(repo.name),
                                              base |-> repo.target_branch]]
                /\ pc' = [pc EXCEPT ![t] = "cw_branch"]
                /\ res' = [res EXCEPT ![t] = "none"]
    /\ UNCHANGED <<fsVars, lockVars, top, rrepo, ws, recreated, again>>
    /\ UNCHANGED elsewhere

\* Mutant: after a failed member the loop goes on to the next repository.
WsCreatedSkips(t) ==
    /\ pc[t] = "ws_created"
    /\ ws' = [ws EXCEPT ![t].created = IF res[t] = "ok"
                                          THEN Append(@, RepoWorktree(ws[t].repos[ws[t].k]))
                                          ELSE @,
                        ![t].k = @ + 1]
    /\ pc' = [pc EXCEPT ![t] = "ws_loop"]
    /\ UNCHANGED <<cur, res>>
    /\ UNCHANGED <<fsVars, lockVars, top, rrepo, recreated, again>>
    /\ UNCHANGED elsewhere

\* The match on create_worktree's result (l.744-762): push the member, or start
\* rollback_worktrees(&created_worktrees) (l.772-780).
WsCreated(t) ==
    /\ pc[t] = "ws_created"
    /\ IF res[t] = "ok"
       THEN /\ ws' = [ws EXCEPT ![t].created = Append(@, RepoWorktree(ws[t].repos[ws[t].k])),
                                ![t].k = @ + 1]
            /\ pc' = [pc EXCEPT ![t] = "ws_loop"]
            /\ UNCHANGED <<cur, res>>
       ELSE IF ws[t].created = <<>>
       THEN /\ res' = [res EXCEPT ![t] = "PartialCreation"]
            /\ pc' = [pc EXCEPT ![t] = "done"]
            /\ UNCHANGED <<cur, ws>>
       ELSE /\ ws' = [ws EXCEPT ![t].rb = 1]
            /\ cur' = [cur EXCEPT ![t] = RollbackArgs(ws[t].created[1])]
            /\ pc' = [pc EXCEPT ![t] = "lock_entry"]
            /\ res' = [res EXCEPT ![t] = "none"]
    /\ UNCHANGED <<fsVars, lockVars, top, rrepo, recreated, again>>
    /\ UNCHANGED elsewhere

\* rollback_worktrees: a member's cleanup returned; an Err is logged and the
\* loop goes on; after the last member create_workspace returns
\* PartialCreation (l.757-760).
WsRolled(t) ==
    /\ pc[t] = "ws_rolled"
    /\ IF ws[t].rb < Len(ws[t].created)
       THEN /\ ws' = [ws EXCEPT ![t].rb = @ + 1]
            /\ cur' = [cur EXCEPT ![t] = RollbackArgs(ws[t].created[ws[t].rb + 1])]
            /\ pc' = [pc EXCEPT ![t] = "lock_entry"]
            /\ res' = [res EXCEPT ![t] = "none"]
       ELSE /\ res' = [res EXCEPT ![t] = "PartialCreation"]
            /\ pc' = [pc EXCEPT ![t] = "done"]
            /\ UNCHANGED <<cur, ws>>
    /\ UNCHANGED <<fsVars, lockVars, top, rrepo, recreated, again>>
    /\ UNCHANGED elsewhere

\* The call has returned to its caller.
Finish(t) ==
    /\ pc[t] = "done"
    /\ again' = [again EXCEPT ![t] = FALSE]
    /\ res' = [res EXCEPT ![t] = "none"]
    /\ recreated' = [recreated EXCEPT ![t] = FALSE]
    /\ pc' = [pc EXCEPT ![t] = "idle"]
    /\ top' = [top EXCEPT ![t] = "idle"]
    /\ cur' = [cur EXCEPT ![t] = NoArgs]
    /\ ws' = [ws EXCEPT ![t] = NoWs]
    /\ rrepo' = [rrepo EXCEPT ![t] = "None"]
    /\ UNCHANGED <<fsVars, lockVars>>
    /\ UNCHANGED elsewhere

\* The caller calls ensure_worktree_exists again, with the arguments of the
\* call that has just returned Ok.
CallEnsureAgain(t) ==
    /\ pc[t] = "done" /\ top[t] = "ensure" /\ res[t] = "ok"
    /\ again' = [again EXCEPT ![t] = TRUE]
    /\ pc' = [pc EXCEPT ![t] = "lock_entry"]
    /\ res' = [res EXCEPT ![t] = "none"]
    /\ recreated' = [recreated EXCEPT ![t] = FALSE]
    /\ UNCHANGED <<fsVars, lockVars, top, cur, rrepo, ws>>
    /\ UNCHANGED elsewhere

\* ----------- cleanup_workspace, l.788-797; batch_cleanup_worktrees, l.643-652
\* The members a caller can hand over: what create_workspace pushes.
Members == {RepoWorktree(repo) : repo \in RepoInputs}

\* cleanup_workspace: one WorktreeCleanup::new(worktree_path,
\* Some(source_repo_path)) per member, then batch_cleanup_worktrees(&cleanups).
CallCleanupWorkspace(t) ==
    /\ pc[t] = "start"
    /\ \E worktrees \in SeqsUpTo(Members, MaxRepos) :
           cleanups' = [cleanups EXCEPT
                           ![t] = [i \in 1..Len(worktrees) |-> RollbackArgs(worktrees[i])]]
    /\ ci' = [ci EXCEPT ![t] = 1]
    /\ outcomes' = [outcomes EXCEPT ![t] = <<>>]
    /\ top' = [top EXCEPT ![t] = "batch"]
    /\ pc' = [pc EXCEPT ![t] = "batch_loop"]
    /\ res' = [res EXCEPT ![t] = "none"]
    /\ UNCHANGED <<fsVars, lockVars, cur, rrepo, ws, recreated, again, gitVars, diffVars, listVars, otherVars>>

\* for cleanup in cleanups { .. cleanup_worktree(cleanup).await .. } Ok(())
BatchLoop(t) ==
    /\ pc[t] = "batch_loop"
    /\ IF ci[t] > Len(cleanups[t])
       THEN /\ res' = [res EXCEPT ![t] = "ok"]
            /\ pc' = [pc EXCEPT ![t] = "done"]
            /\ UNCHANGED cur
       ELSE /\ cur' = [cur EXCEPT ![t] = cleanups[t][ci[t]]]
            /\ pc' = [pc EXCEPT ![t] = "lock_entry"]
            /\ res' = [res EXCEPT ![t] = "none"]
    /\ UNCHANGED <<fsVars, lockVars, top, rrepo, ws, recreated, again, batchVars,
                    gitVars, diffVars, listVars, otherVars>>

\* Mutant: the member's error is propagated (`?`).
BatchContinuesM(r) == r = "ok"

\* if let Err(e) = Self::cleanup_worktree(cleanup).await { tracing::error!(..) }:
\* whatever the member's cleanup returned, the loop goes on.
BatchContinues(r) == TRUE

\* A member's cleanup_worktree has returned.
BatchNext(t) ==
    /\ pc[t] = "batch_next"
    /\ outcomes' = [outcomes EXCEPT ![t] = Append(@, [cleanup |-> cur[t], result |-> res[t]])]
    /\ IF BatchContinues(res[t])
       THEN /\ ci' = [ci EXCEPT ![t] = @ + 1]
            /\ pc' = [pc EXCEPT ![t] = "batch_loop"]
       ELSE /\ pc' = [pc EXCEPT ![t] = "done"]
            /\ UNCHANGED ci
    /\ UNCHANGED <<fsVars, lockVars, top, cur, rrepo, ws, res, recreated, again, cleanups,
                    gitVars, diffVars, listVars, otherVars>>

\* ----------------------------------------------------------- specification
Step(t) ==
    \/ CallEnsure(t) \/ CallCleanup(t) \/ CallCreateWorktree(t) \/ CallMoveWorktree(t)
    \/ CallCreateWorkspace(t) \/ CallEnsureAgain(t)
    \/ CreateBranch(t) \/ LockEntry(t) \/ LockAcquire(t)
    \/ EnsureCheck(t) \/ CleanupResolve(t)
    \/ CleanupOpen(t) \/ CleanupGitRemove(t) \/ CleanupMetadata(t) \/ CleanupRmdir(t)
    \/ CleanupPrune(t) \/ SimpleCleanup(t)
    \/ EnsureMkParent(t) \/ EnsureAdd1(t) \/ EnsureRetryMeta(t) \/ EnsureRetryRmdir(t)
    \/ EnsureAdd2(t)
    \/ MoveRun(t)
    \/ WsBegin(t) \/ WsLoop(t) \/ WsCreated(t) \/ WsRolled(t)
    \/ Finish(t)

Next == \E t \in Tasks : Step(t)

\* One caller, one call after the other, as many as it likes.
Init ==
    /\ InitOther
    /\ InitFs
    /\ InitTasks
    /\ InitBatch
    /\ InitGit
    /\ InitPure
    /\ pc = [t \in Tasks |-> IF t = 1 THEN "idle" ELSE "off"]

Spec == Init /\ [][Next]_vars

\* Concurrent callers on the repository r1, one call each.
ConcCall(t) ==
    \/ \E p \in Spellings :
           /\ Begin(t, "start", "ensure",
                    [repo |-> "r1", branch |-> "task", path |-> p, base |-> "main"],
                    "lock_entry")
           /\ UNCHANGED ws
    \/ \E p \in Dirs :
           /\ Begin(t, "start", "cleanup",
                    [repo |-> "r1", branch |-> "main", path |-> p, base |-> "main"],
                    "lock_entry")
           /\ UNCHANGED ws
    \/ /\ Begin(t, "start", "create",
                [repo |-> "r1", branch |-> "task", path |-> "b", base |-> "main"],
                "cw_branch")
       /\ UNCHANGED ws
    \/ /\ Begin(t, "start", "move",
                [repo |-> "r1", branch |-> "main", path |-> "a", base |-> "b"], "mv_run")
       /\ UNCHANGED ws

ConcStep(t) ==
    \/ ConcCall(t)
    \/ CreateBranch(t) \/ LockEntry(t) \/ LockAcquire(t)
    \/ EnsureCheck(t) \/ CleanupResolve(t)
    \/ CleanupOpen(t) \/ CleanupGitRemove(t) \/ CleanupMetadata(t) \/ CleanupRmdir(t)
    \/ CleanupPrune(t)
    \/ EnsureMkParent(t) \/ EnsureAdd1(t) \/ EnsureRetryMeta(t) \/ EnsureRetryRmdir(t)
    \/ EnsureAdd2(t)
    \/ MoveRun(t)

NextConc == \E t \in Tasks : ConcStep(t)

\* The branch the callers ask for may exist already (an earlier
\* create_worktree made it) or not.
InitConc ==
    /\ InitOther
    /\ dir = [d \in Dirs |-> "absent"]
    /\ meta = {}
    /\ branches \in {{<<r, "main">> : r \in Repos},
                     {<<r, "main">> : r \in Repos} \cup {<<"r1", "task">>}}
    /\ wsdir = FALSE
    /\ InitTasks
    /\ InitBatch
    /\ InitGit
    /\ InitPure
    /\ pc = [t \in Tasks |-> "start"]

SpecConc == InitConc /\ [][NextConc]_vars


\* One caller tears a workspace down, on a filesystem in which each member's
\* directory and registration may be there or not.
BatchStep(t) ==
    \/ CallCleanupWorkspace(t) \/ BatchLoop(t) \/ BatchNext(t)
    \/ LockEntry(t) \/ LockAcquire(t) \/ CleanupResolve(t)
    \/ CleanupOpen(t) \/ CleanupGitRemove(t) \/ CleanupMetadata(t) \/ CleanupRmdir(t)
    \/ CleanupPrune(t)

NextBatch == \E t \in Tasks : BatchStep(t)

InitBatchFs ==
    /\ dir \in [Dirs -> {"absent", "r1"}]
    /\ meta \in SUBSET {<<"r1", d>> : d \in Dirs}
    /\ branches = {<<r, "main">> : r \in Repos} \cup {<<"r1", "task">>}
    /\ wsdir = TRUE

InitBatchSpec ==
    /\ InitOther
    /\ InitBatchFs
    /\ InitTasks
    /\ InitBatch
    /\ InitGit
    /\ InitPure
    /\ pc = [t \in Tasks |-> IF t = 1 THEN "start" ELSE "off"]

SpecBatch == InitBatchSpec /\ [][NextBatch]_vars


\* ================================================================= claims
\* Positions between `lock.lock().await` returning and the function's return.
LockedLabels ==
    {"e_check", "c_resolve", "cc_open", "cc_remove", "cc_meta", "cc_rmdir", "cc_prune",
     "sc", "e_mkparent", "e_add1", "e_retry_meta", "e_retry_rmdir", "e_add2"}

\* Positions from which the next step writes to the filesystem or to a
\* repository's metadata.
MutatingLabels ==
    {"cw_branch", "cc_remove", "cc_meta", "cc_rmdir", "cc_prune", "sc", "e_mkparent",
     "e_add1", "e_retry_meta", "e_retry_rmdir", "e_add2", "mv_run"}

InLocked(t) == pc[t] \in LockedLabels

\* C1: for every worktree path P (as passed), at most one ensure_worktree_exists
\* or cleanup_worktree call on P is between acquiring P's lock and returning.
C1_MutualExclusion ==
    \A t \in Tasks, u \in Tasks :
        (t # u /\ InLocked(t) /\ InLocked(u)) => cur[t].path # cur[u].path

\* C1 witness: one call is inside its locked section while another call on the
\* same path waits for the lock.
C1_Witness ==
    \E t \in Tasks, u \in Tasks :
        /\ t # u /\ InLocked(t) /\ pc[t] = "cc_rmdir"
        /\ pc[u] = "lock_wait" /\ cur[u].path = cur[t].path
        /\ top[t] = "ensure" /\ top[u] = "cleanup"

\* Two tasks run ensure_worktree_exists with the same arguments and no third
\* task has touched, or is touching, that directory.
SameEnsure(t, u) ==
    /\ t # u /\ top[t] = "ensure" /\ top[u] = "ensure" /\ cur[t] = cur[u]
    /\ \A w \in Tasks \ {t, u} :
           \/ pc[w] = "start"
           \/ /\ top[w] \in {"ensure", "cleanup", "create"}
              /\ PathOf(cur[w].path) # PathOf(cur[t].path)

\* C3: when two callers race to ensure the same absent path and one creation
\* succeeds, the other caller does not recreate after it: either it went first
\* and its own creation failed, or it finds the worktree valid and returns Ok
\* without entering the recreation.
C3_NoDuplicateCreation ==
    \A t \in Tasks, u \in Tasks :
        (SameEnsure(t, u) /\ recreated[t] /\ res[t] = "ok")
            => /\ recreated[u] => res[u] \notin {"none", "ok"}
               /\ (pc[u] = "done" /\ ~recreated[u]) => res[u] = "ok"

\* C3 witness: one caller created the worktree, the other returned Ok without
\* recreating.
C3_Witness ==
    \E t \in Tasks, u \in Tasks :
        /\ SameEnsure(t, u) /\ recreated[t] /\ res[t] = "ok"
        /\ pc[u] = "done" /\ ~recreated[u] /\ res[u] = "ok"

\* C5 (as claimed): a task about to write to the filesystem or to git metadata
\* for a path holds that path's lock; move_worktree holds the locks of both
\* its paths.
C5_MutationUnderLock ==
    \A t \in Tasks :
        pc[t] \in MutatingLabels
            => /\ t \in held[LockKey(cur[t].path)]
               /\ pc[t] = "mv_run" => t \in held[LockKey(cur[t].base)]

\* C6: a call waiting for the lock of path Q can take it whenever no call on Q
\* is in its locked section, whatever calls on other paths hold; and a call
\* inside its locked section can always take its next step.
C6_DistinctPathsIndependent ==
    \A t \in Tasks :
        /\ (/\ pc[t] = "lock_wait"
            /\ \A u \in Tasks \ {t} : InLocked(u) => cur[u].path # cur[t].path)
               => ENABLED LockAcquire(t)
        /\ InLocked(t) => ENABLED ConcStep(t)

\* C6 witness: a call on "b" is inside its locked section while a call on "a"
\* holds the lock of "a".
C6_Witness ==
    \E t \in Tasks, u \in Tasks :
        /\ InLocked(t) /\ InLocked(u)
        /\ cur[t].path = "a" /\ cur[u].path = "b"
        /\ pc[t] = "cc_prune" /\ pc[u] = "e_add1"

\* C7 (as claimed): two calls whose path arguments denote the same directory
\* are never both inside their locked sections.
C7_SameDirectorySerialized ==
    \A t \in Tasks, u \in Tasks :
        (t # u /\ InLocked(t) /\ InLocked(u))
            => PathOf(cur[t].path) # PathOf(cur[u].path)

\* ------------------------------------------------ one caller (Spec) claims
\* create_workspace has returned WorkspaceError::PartialCreation.
WsFailed(t) == pc[t] = "done" /\ top[t] = "workspace" /\ res[t] = "PartialCreation"

\* The worktree of repository r at the path spelled p is gone: no directory,
\* no registration in r.
Gone(r, p) == ~Exists(PathOf(p)) /\ <<r, PathOf(p)>> \notin meta

\* C2 (as claimed): when create_workspace returns an error, none of the
\* worktrees it had created still exists, as a directory or as a registration,
\* whatever the rollback's cleanups met.
C2_AllOrNothing ==
    \A t \in Tasks :
        WsFailed(t) =>
            \A i \in 1..Len(ws[t].created) :
                Gone(ws[t].created[i].source_repo_path, ws[t].created[i].worktree_path)

\* Positions inside recreate_worktree_internal.
RecreateLabels ==
    {"cc_open", "cc_remove", "cc_meta", "cc_rmdir", "cc_prune", "sc", "e_mkparent",
     "e_add1", "e_retry_meta", "e_retry_rmdir", "e_add2"}

\* C4: an ensure_worktree_exists call that repeats, with the same arguments and
\* nothing in between, a call that returned Ok changes neither the filesystem
\* nor any metadata, never enters the cleanup / mkdir / `worktree add`
\* sequence, and returns Ok.
C4_EnsureIdempotent ==
    [][\A t \in Tasks :
          again[t] => /\ UNCHANGED fsVars
                      /\ pc'[t] \notin RecreateLabels
                      /\ pc'[t] = "done" => res'[t] = "ok"]_vars

\* C4 witness: the repeated call has returned Ok, for a path spelled with a
\* trailing separator.
C4_Witness ==
    \E t \in Tasks :
        /\ again[t] /\ pc[t] = "done" /\ res[t] = "ok" /\ ~recreated[t]
        /\ cur[t].path = "a/" /\ Exists("a")

\* C8 (as claimed): when create_workspace has failed on member k, member k's
\* worktree does not exist: no directory at workspace_dir/name_k, no
\* registration of it in repository k.
C8_FailedMemberAbsent ==
    \A t \in Tasks :
        (WsFailed(t) /\ ws[t].k \in 1..Len(ws[t].repos)) =>
            Gone(ws[t].repos[ws[t].k].path, Join(ws[t].repos[ws[t].k].name))

\* C9 (as claimed): a cleanup_worktree call given a repository path returns an
\* error only from the step that removes the physical directory, that removal
\* having failed; no other step ends it with an error.
C9_OnlyRemovalFails ==
    [][\A t \in Tasks :
          (/\ top[t] = "cleanup" /\ cur[t].repo # "None"
           /\ pc[t] # "done" /\ pc'[t] = "done" /\ res'[t] # "ok")
              => /\ pc[t] \in {"cc_rmdir", "sc"}
                 /\ Exists(PathOf(cur[t].path))
                 /\ UNCHANGED dir]_vars

\* C10: when cleanup_worktree has returned Ok, no directory exists at the
\* worktree path, through comprehensive_cleanup (repository path given or
\* inferred) and through simple_cleanup alike.
C10_CleanupOkNoDirectory ==
    \A t \in Tasks :
        (pc[t] = "done" /\ top[t] = "cleanup" /\ res[t] = "ok")
            => ~Exists(PathOf(cur[t].path))

\* C10 witness: a cleanup without repository path inferred the repository from
\* the existing worktree, ran the comprehensive cleanup and returned Ok.
C10_Witness ==
    \E t \in Tasks :
        /\ pc[t] = "done" /\ top[t] = "cleanup" /\ res[t] = "ok"
        /\ cur[t].repo = "None" /\ rrepo[t] \in Repos

\* -------------------------------------------------- SpecBatch / Spec claims
\* C11: cleanup_workspace calls cleanup_worktree for the members in order, each
\* exactly once, whatever the earlier ones returned, and returns Ok.
C11_BatchCleansEveryMember ==
    \A t \in Tasks :
        top[t] = "batch" =>
            /\ Len(outcomes[t]) <= Len(cleanups[t])
            /\ \A i \in 1..Len(outcomes[t]) : outcomes[t][i].cleanup = cleanups[t][i]
            /\ pc[t] = "done" => (res[t] = "ok" /\ Len(outcomes[t]) = Len(cleanups[t]))

\* C11 witness: the first member's cleanup failed, the second was cleaned, and
\* the call has returned.
C11_Witness ==
    \E t \in Tasks :
        /\ top[t] = "batch" /\ pc[t] = "done" /\ Len(outcomes[t]) = 2
        /\ outcomes[t][1].result = "Io" /\ outcomes[t][2].result = "ok"

\* C12: a create_workspace call with an empty repository list changes neither
\* the filesystem (workspace directory included), nor any branch, nor the lock
\* table, and returns NoRepositories.
C12_EmptyListRejected ==
    [][\A t \in Tasks :
          (top'[t] = "workspace" /\ ws'[t].repos = <<>>)
              => /\ UNCHANGED <<fsVars, lockVars>>
                 /\ pc'[t] = "done" => res'[t] = "NoRepositories"]_vars

\* C12 witness: the call with the empty list has returned and the workspace
\* directory does not exist.
C12_Witness ==
    \E t \in Tasks :
        /\ pc[t] = "done" /\ top[t] = "workspace" /\ ws[t].repos = <<>>
        /\ res[t] = "NoRepositories" /\ ~wsdir /\ locks = {}

\* ============================================================== git-tools
\* src-libs/git-tools: GitService and GitCli.  A call is one traversal of the
\* function from "idle" to "done"; every git command it spawns is a step that
\* may fail (git_impl, l.255-288).

Commits == DOMAIN parents

\* The commits reachable from c.
RECURSIVE Ancestors(_)
Ancestors(c) == {c} \cup UNION {Ancestors(p) : p \in parents[c]}

\* repo.graph_ahead_behind(local, upstream): commits only local has, commits
\* only upstream has.
GraphAheadBehind(local, upstream) ==
    <<Cardinality(Ancestors(local) \ Ancestors(upstream)),
      Cardinality(Ancestors(upstream) \ Ancestors(local))>>

\* get_branch_status, l.856-865
GetBranchStatus(branch_name, base_branch_name) ==
    GraphAheadBehind(refs[branch_name], refs[base_branch_name])

TaskBehindM(status) == status[1]

\* let (_, task_behind) = ..., l.1149
TaskBehind(status) == status[2]

UpdateRefM(r, refname, sha) == r

\* git update-ref <refname> <sha>, l.541-543
UpdateRef(r, refname, sha) == [r EXCEPT ![refname] = sha]

\* The call returns Err(err).
GitErr(err) ==
    /\ gres' = [NoResult EXCEPT !.err = err]
    /\ gpc' = "done"

\* The call returns Ok(sha) (sha = 0: Ok without a commit id).
GitOk(sha) ==
    /\ gres' = [NoResult EXCEPT !.sha = sha]
    /\ gpc' = "done"

\* self.git(...) has run cmd with outcome ok.
Ran(cmd, ok) == cmds' = Append(cmds, <<cmd, ok>>)

\* ----------------------------------------------- merge_changes, l.1148-1173
CallMergeChanges ==
    /\ gpc = "idle"
    /\ gop' = [NoOp EXCEPT !.name = "merge_changes",
                           !.start = [commits |-> Commits, refs |-> refs]]
    /\ gpc' = "m_status"
    /\ UNCHANGED <<parents, refs, identity, basewt, taskwt, gres, cmds, unrelated>>

\* l.1149-1153
MergeStatus ==
    /\ gpc = "m_status"
    /\ IF TaskBehind(GetBranchStatus("task", "base")) > 0
          THEN GitErr("BranchesDiverged")
          ELSE gpc' = "m_worktrees" /\ UNCHANGED gres
    /\ UNCHANGED <<parents, refs, identity, basewt, taskwt, gop, cmds, unrelated>>

\* l.1155-1158 and l.1172: the worktree that has the base branch checked out
MergeWorktrees ==
    /\ gpc = "m_worktrees"
    /\ IF basewt.branch = "base"
          THEN gpc' = "m_staged" /\ UNCHANGED gres
          ELSE GitErr("InvalidRepository")
    /\ UNCHANGED <<parents, refs, identity, basewt, taskwt, gop, cmds, unrelated>>

\* l.1159-1161, has_staged_changes l.526-531
MergeStaged ==
    /\ gpc = "m_staged"
    /\ \E ok \in BOOLEAN :
           IF ~ok THEN GitErr("GitCli")
           ELSE IF basewt.staged THEN GitErr("WorktreeDirty")
           ELSE gpc' = "m_identity" /\ UNCHANGED gres
    /\ UNCHANGED <<parents, refs, identity, basewt, taskwt, gop, cmds, unrelated>>

\* l.1162, ensure_cli_commit_identity l.580-591
MergeIdentity ==
    /\ gpc = "m_identity"
    /\ identity' = TRUE
    /\ gpc' = "m_checkout"
    /\ UNCHANGED <<parents, refs, basewt, taskwt, gop, gres, cmds, unrelated>>

\* git checkout <base_branch>, l.534
MergeCheckout ==
    /\ gpc = "m_checkout"
    /\ \E ok \in BOOLEAN :
           /\ Ran("checkout", ok)
           /\ IF ok THEN gpc' = "m_squash" /\ UNCHANGED gres
                    ELSE GitErr("InvalidRepository")
    /\ UNCHANGED <<parents, refs, identity, basewt, taskwt, gop, unrelated>>

\* git merge --squash --no-commit <task_branch>, l.535: stages the changes of
\* the commits only the task branch has; a conflict may leave changes staged.
MergeSquash ==
    /\ gpc = "m_squash"
    /\ \E ok \in BOOLEAN :
           /\ Ran("merge --squash", ok)
           /\ IF ok
                 THEN /\ basewt' = [basewt EXCEPT
                             !.staged = GetBranchStatus("task", "base")[1] > 0]
                      /\ gpc' = "m_commit" /\ UNCHANGED gres
                 ELSE /\ \E st \in BOOLEAN : basewt' = [basewt EXCEPT !.staged = st]
                      /\ GitErr("InvalidRepository")
    /\ UNCHANGED <<parents, refs, identity, taskwt, gop, unrelated>>

\* git commit -m <message>, l.536: fails when nothing is staged; the new
\* commit has the base branch's head as its only parent.
MergeCommit ==
    /\ gpc = "m_commit"
    /\ \E ok \in (IF basewt.staged THEN BOOLEAN ELSE {FALSE}) :
           /\ Ran("commit", ok)
           /\ IF ok
                 THEN LET c == Cardinality(Commits) + 1 IN
                      /\ parents' = [x \in Commits \cup {c} |->
                                        IF x = c THEN {refs.base} ELSE parents[x]]
                      /\ refs' = [refs EXCEPT !.base = c]
                      /\ basewt' = [basewt EXCEPT !.staged = FALSE]
                      /\ gpc' = "m_rev_parse" /\ UNCHANGED gres
                 ELSE /\ GitErr("InvalidRepository")
                      /\ UNCHANGED <<parents, refs, basewt>>
    /\ UNCHANGED <<identity, taskwt, gop, unrelated>>

\* git rev-parse HEAD, l.537: HEAD of the worktree is the base branch
MergeRevParse ==
    /\ gpc = "m_rev_parse"
    /\ \E ok \in BOOLEAN :
           /\ Ran("rev-parse", ok)
           /\ IF ok THEN /\ gop' = [gop EXCEPT !.sha = refs[basewt.branch]]
                         /\ gpc' = "m_update_ref" /\ UNCHANGED gres
                    ELSE GitErr("InvalidRepository") /\ UNCHANGED gop
    /\ UNCHANGED <<parents, refs, identity, basewt, taskwt, unrelated>>

\* l.1165-1168
MergeUpdateRef ==
    /\ gpc = "m_update_ref"
    /\ \E ok \in BOOLEAN :
           /\ Ran("update-ref", ok)
           /\ IF ok THEN /\ refs' = UpdateRef(refs, "task", gop.sha)
                         /\ GitOk(gop.sha)
                    ELSE GitErr("InvalidRepository") /\ UNCHANGED refs
    /\ UNCHANGED <<parents, identity, basewt, taskwt, gop, unrelated>>

NextMerge ==
    \/ CallMergeChanges
    \/ MergeStatus
    \/ MergeWorktrees
    \/ MergeStaged
    \/ MergeIdentity
    \/ MergeCheckout
    \/ MergeSquash
    \/ MergeCommit
    \/ MergeRevParse
    \/ MergeUpdateRef

\* The workspace crate is not running.
InitWorkspaceIdle ==
    /\ InitFs
    /\ InitTasks
    /\ InitBatch
    /\ pc = [t \in Tasks |-> "off"]

\* Histories of MaxCommits commits in which every commit but the root has one
\* earlier commit as its parent.
Histories ==
    {h \in [1..MaxCommits -> SUBSET (1..MaxCommits)] :
        /\ h[1] = {}
        /\ \A c \in 2..MaxCommits : \E p \in 1..(c - 1) : h[c] = {p}}

InitMerge ==
    /\ InitOther
    /\ InitWorkspaceIdle
    /\ InitCall
    /\ InitPure
    /\ parents \in Histories
    /\ refs \in [{"base", "task"} -> 1..MaxCommits]
    /\ identity \in BOOLEAN
    /\ basewt \in [branch : {"base", "other"}, staged : BOOLEAN]
    /\ taskwt = [markers |-> NoMarkers, conflicted |-> 0, tracked |-> {}]

SpecMerge == InitMerge /\ [][NextMerge]_vars

\* ------------------------------------------------------- SpecMerge claims

\* The call running is merge_changes.
InMerge == gop.name = "merge_changes"

\* C13: when the task branch is behind the base branch at the call, no step of a
\* merge_changes call runs a git command or changes the commit graph, a branch
\* ref, the base worktree or the configuration, and the call returns
\* BranchesDiverged.
C13_BehindRejectedUntouched ==
    [][(/\ gop'.name = "merge_changes"
        /\ Ancestors(gop'.start.refs.base) \ Ancestors(gop'.start.refs.task) # {})
          => /\ UNCHANGED <<parents, refs, identity, basewt, taskwt, cmds>>
             /\ gpc' = "done" => (gres'.err = "BranchesDiverged" /\ gres'.sha = 0)]_vars

\* C13 counterpart reached: a call on a task branch that is behind has returned.
C13_Witness ==
    /\ InMerge /\ gpc = "done"
    /\ gres.err = "BranchesDiverged"
    /\ GetBranchStatus("task", "base")[2] > 0
    /\ refs = gop.start.refs
    /\ cmds = <<>>

\* C14: a merge_changes call that returns Ok(C) leaves both branch refs at C,
\* C being the one commit the call created, on top of the base branch's head
\* at the start; a call in which a command failed returns no commit id.
C14_MergeResultIsSquashCommit ==
    (InMerge /\ gpc = "done") =>
        /\ gres.err = "none" =>
              /\ refs.base = gres.sha
              /\ refs.task = gres.sha
              /\ Commits \ gop.start.commits = {gres.sha}
              /\ parents[gres.sha] = {gop.start.refs.base}
        /\ (\E i \in 1..Len(cmds) : ~cmds[i][2]) => gres.err # "none"
        /\ gres.err # "none" => gres.sha = 0

\* C14 witness: a merge has succeeded.
C14_Witness ==
    /\ InMerge /\ gpc = "done" /\ gres.err = "none"
    /\ gres.sha \in Commits
    /\ Len(cmds) = 5

\* ------------------------------------------- the task worktree's operations
ConflictOps == {"Rebase", "Merge", "CherryPick", "Revert"}

DetectConflictOpM(markers) ==
    IF markers.Merge THEN "Merge"
    ELSE IF markers.Rebase THEN "Rebase"
    ELSE IF markers.CherryPick THEN "CherryPick"
    ELSE IF markers.Revert THEN "Revert"
    ELSE "None"

\* detect_conflict_op, l.1051-1058; abort_conflicts probes in the same order.
\* is_*_in_progress answers by the marker (l.480-508).
DetectConflictOp(markers) ==
    IF markers.Rebase THEN "Rebase"
    ELSE IF markers.Merge THEN "Merge"
    ELSE IF markers.CherryPick THEN "CherryPick"
    ELSE IF markers.Revert THEN "Revert"
    ELSE "None"

\* Mutant: the cherry-pick probe comes before the merge probe.
AbortTargetM(markers) ==
    IF markers.Rebase THEN "Rebase"
    ELSE IF markers.CherryPick THEN "CherryPick"
    ELSE IF markers.Merge THEN "Merge"
    ELSE IF markers.Revert THEN "Revert"
    ELSE "None"

\* abort_conflicts' own chain of probes, l.1082, l.1090, l.1094, l.1098, and
\* the final Ok(()) of l.1102.
AbortTarget(markers) ==
    IF markers.Rebase THEN "Rebase"
    ELSE IF markers.Merge THEN "Merge"
    ELSE IF markers.CherryPick THEN "CherryPick"
    ELSE IF markers.Revert THEN "Revert"
    ELSE "None"

AbortsRebaseM(files) == TRUE

\* !self.get_conflicted_files(worktree_path)?.is_empty(), l.1083
AbortsRebase(files) == files > 0

\* StatusEntry::path(): the path of a status entry, None when the file name is
\* not valid UTF-8.
EntryPath(e) == IF e = "utf8" THEN "some" ELSE "none"

\* statuses.iter().filter_map(|e| e.path()...), l.931
DirtyPaths(statuses) == {e \in statuses : EntryPath(e) # "none"}

\* stderr.contains("CONFLICT"), l.1184: the output is a sequence of words
ContainsConflict(out) == \E i \in 1..Len(out) : out[i] = "CONFLICT"

\* What a failed `git rebase` prints (git_impl joins stderr and stdout, l.276-285).
RebaseFailures ==
    {<<"stderr:", "fatal:", "cannot", "rebase">>,
     <<"stderr:", "error:", "could", "not", "apply", "stdout:", "CONFLICT", "(content)">>}

\* The worktree with operation op ended by its --abort command.
Aborted(wt, op) ==
    [markers |-> [wt.markers EXCEPT ![op] = FALSE], conflicted |-> 0, tracked |-> {}]

CallGit(name, first) ==
    /\ gpc = "idle"
    /\ gop' = [NoOp EXCEPT !.name = name, !.start = taskwt]
    /\ gpc' = first
    /\ UNCHANGED <<parents, refs, identity, basewt, taskwt, gres, cmds, unrelated>>

\* ------------------------------------------ detect_conflict_op, l.1051-1058
CallDetectConflictOp == CallGit("detect_conflict_op", "d_probe")

DetectProbe ==
    /\ gpc = "d_probe"
    /\ gres' = [NoResult EXCEPT !.op = DetectConflictOp(taskwt.markers)]
    /\ gpc' = "done"
    /\ UNCHANGED <<parents, refs, identity, basewt, taskwt, gop, cmds, unrelated>>

\* --------------------------------------------- abort_conflicts, l.1080-1103
CallAbortConflicts == CallGit("abort_conflicts", "a_probe")

\* the four `if git.is_*_in_progress(..).unwrap_or(false)` and the final Ok(())
AbortProbe ==
    /\ gpc = "a_probe"
    /\ LET op == AbortTarget(taskwt.markers) IN
           IF op = "None" THEN GitOk(0)
           ELSE /\ gpc' = IF op = "Rebase" THEN "a_files" ELSE "a_other"
                /\ UNCHANGED gres
    /\ UNCHANGED <<parents, refs, identity, basewt, taskwt, gop, cmds, unrelated>>

\* get_conflicted_files, l.560-563 and l.1060-1063
AbortFiles ==
    /\ gpc = "a_files"
    /\ \E ok \in BOOLEAN :
           IF ok THEN /\ gop' = [gop EXCEPT !.files = taskwt.conflicted]
                      /\ gpc' = "a_rebase" /\ UNCHANGED gres
                 ELSE GitErr("InvalidRepository") /\ UNCHANGED gop
    /\ UNCHANGED <<parents, refs, identity, basewt, taskwt, cmds, unrelated>>

\* l.1083-1088 with abort_rebase l.510-513 and quit_rebase l.515-518: --abort
\* restores the worktree, --quit only forgets the rebase.
AbortRebase ==
    /\ gpc = "a_rebase"
    /\ \E ok \in BOOLEAN :
           LET cmd == IF AbortsRebase(gop.files) THEN "rebase --abort" ELSE "rebase --quit" IN
           /\ Ran(cmd, ok)
           /\ IF ok
                 THEN /\ taskwt' = IF cmd = "rebase --abort"
                                      THEN Aborted(taskwt, "Rebase")
                                      ELSE [taskwt EXCEPT !.markers.Rebase = FALSE]
                      /\ GitOk(0)
                 ELSE GitErr("InvalidRepository") /\ UNCHANGED taskwt
    /\ UNCHANGED <<parents, refs, identity, basewt, gop, unrelated>>

\* l.1090-1101 with abort_merge, abort_cherry_pick, abort_revert, l.545-558
AbortOther ==
    /\ gpc = "a_other"
    /\ \E ok \in BOOLEAN :
           LET op == AbortTarget(taskwt.markers) IN
           /\ Ran(op, ok)
           /\ IF ok THEN taskwt' = Aborted(taskwt, op) /\ GitOk(0)
                    ELSE GitErr("InvalidRepository") /\ UNCHANGED taskwt
    /\ UNCHANGED <<parents, refs, identity, basewt, gop, unrelated>>

\* ----------------------------------------------- rebase_branch, l.1175-1189
CallRebaseBranch == CallGit("rebase_branch", "r_clean")

\* check_worktree_clean, l.926-940
RebaseClean ==
    /\ gpc = "r_clean"
    /\ LET statuses == taskwt.tracked IN
           IF statuses # {} /\ DirtyPaths(statuses) # {}
              THEN GitErr("WorktreeDirty")
              ELSE gpc' = "r_probe" /\ UNCHANGED gres
    /\ UNCHANGED <<parents, refs, identity, basewt, taskwt, gop, cmds, unrelated>>

\* l.1179
RebaseProbe ==
    /\ gpc = "r_probe"
    /\ IF taskwt.markers.Rebase
          THEN GitErr("RebaseInProgress")
          ELSE gpc' = "r_identity" /\ UNCHANGED gres
    /\ UNCHANGED <<parents, refs, identity, basewt, taskwt, gop, cmds, unrelated>>

\* l.1180
RebaseIdentity ==
    /\ gpc = "r_identity"
    /\ identity' = TRUE
    /\ gpc' = "r_onto"
    /\ UNCHANGED <<parents, refs, basewt, taskwt, gop, gres, cmds, unrelated>>

\* The commit graph and the task ref after the commits only the task branch
\* has were replayed on the base branch's head.
Replayed ==
    LET n == GetBranchStatus("task", "base")[1]
        last == Cardinality(Commits)
    IN  [graph |-> [c \in 1..(last + n) |->
                       IF c <= last THEN parents[c]
                       ELSE IF c = last + 1 THEN {refs.base} ELSE {c - 1}],
         task |-> IF n = 0 THEN refs.base ELSE last + n]

\* rebase_onto, l.473-478, and the match on its result, l.1181-1188.  The
\* command rewrites the task branch when it succeeds and leaves a rebase in
\* progress when it stops on a conflict.
RebaseOnto ==
    /\ gpc = "r_onto"
    /\ IF taskwt.markers.Rebase
          THEN GitErr("RebaseInProgress") /\ UNCHANGED <<parents, refs, taskwt, gop, cmds>>
          ELSE \/ /\ Ran("rebase --onto", TRUE)
                  /\ parents' = Replayed.graph
                  /\ refs' = [refs EXCEPT !.task = Replayed.task]
                  /\ GitOk(Replayed.task)
                  /\ UNCHANGED <<taskwt, gop>>
               \/ \E out \in RebaseFailures :
                  /\ Ran("rebase --onto", FALSE)
                  /\ gop' = [gop EXCEPT !.out = out]
                  /\ IF ContainsConflict(out)
                        THEN /\ taskwt' = [markers |-> [taskwt.markers EXCEPT !.Rebase = TRUE],
                                           conflicted |-> 1,
                                           tracked |-> taskwt.tracked \cup {"utf8"}]
                             /\ GitErr("MergeConflicts")
                        ELSE /\ GitErr("InvalidRepository")
                             /\ UNCHANGED taskwt
                  /\ UNCHANGED <<parents, refs>>
    /\ UNCHANGED <<identity, basewt, unrelated>>

NextConflict ==
    \/ CallDetectConflictOp
    \/ DetectProbe
    \/ CallAbortConflicts
    \/ AbortProbe
    \/ AbortFiles
    \/ AbortRebase
    \/ AbortOther
    \/ CallRebaseBranch
    \/ RebaseClean
    \/ RebaseProbe
    \/ RebaseIdentity
    \/ RebaseOnto

\* Task worktrees: any combination of the four markers; unmerged files only
\* while an operation is in progress, and they show in the status.
TaskWorktrees ==
    {wt \in [markers : [ConflictOps -> BOOLEAN],
             conflicted : 0..MaxConflicted,
             tracked : SUBSET {"utf8", "raw"}] :
        wt.conflicted > 0 =>
            /\ \E op \in ConflictOps : wt.markers[op]
            /\ wt.tracked # {}}

InitConflict ==
    /\ InitOther
    /\ InitWorkspaceIdle
    /\ InitCall
    /\ InitPure
    /\ parents \in Histories
    /\ refs \in [{"base", "task"} -> 1..MaxCommits]
    /\ identity \in BOOLEAN
    /\ basewt = [branch |-> "base", staged |-> FALSE]
    /\ taskwt \in TaskWorktrees

SpecConflict == InitConflict /\ [][NextConflict]_vars

\* ---------------------------------------------------- SpecConflict claims
Rank == [Rebase |-> 1, Merge |-> 2, CherryPick |-> 3, Revert |-> 4]

Issued(cmd) == {i \in 1..Len(cmds) : cmds[i][1] = cmd}

C17_RebaseGuarded ==
    gop.name = "rebase_branch" =>
        /\ (gop.start.tracked # {} \/ gop.start.markers.Rebase)
               => Issued("rebase --onto") = {}
        /\ (gpc = "done" /\ gop.start.markers.Rebase) => gres.err = "RebaseInProgress"
        /\ (gpc = "done" /\ ContainsConflict(gop.out)) => gres.err = "MergeConflicts"

\* ------------------- get_diffs, l.645-691; convert_diff_to_file_diffs, l.693-724
MAX_INLINE_DIFF_BYTES == 2 * 1024 * 1024

\* A side of a delta without a blob (zero oid).
Zero == [exists |-> FALSE, binary |-> FALSE, utf8 |-> FALSE, size |-> 0]

\* The blobs a side can be: text around the cap, text that is not UTF-8, binary.
Blobs ==
    [exists : {TRUE}, binary : {FALSE}, utf8 : {TRUE},
     size : {10, MAX_INLINE_DIFF_BYTES, MAX_INLINE_DIFF_BYTES + 1, 3 * 1024 * 1024}]
    \cup {[exists |-> TRUE, binary |-> FALSE, utf8 |-> FALSE, size |-> 10]}
    \cup [exists : {TRUE}, binary : {TRUE}, utf8 : {FALSE}, size : {10, 3 * 1024 * 1024}]

\* git2::Delta with the sides libgit2 gives a delta of each status; both
\* files of a delta carry a path.
Deltas ==
    [status : {"Added"}, old : {Zero}, new : Blobs, old_path : {"a"}, new_path : {"a"}]
    \cup [status : {"Deleted"}, old : Blobs, new : {Zero}, old_path : {"a"}, new_path : {"a"}]
    \cup [status : {"Modified", "Typechange", "Conflicted"}, old : Blobs, new : Blobs,
          old_path : {"a"}, new_path : {"a"}]
    \cup [status : {"Renamed", "Copied"}, old : Blobs, new : Blobs,
          old_path : {"a"}, new_path : {"b"}]
    \cup {[status |-> "Unmodified", old |-> b, new |-> b, old_path |-> "a", new_path |-> "a"] :
            b \in Blobs}
    \cup [status : {"Untracked", "Ignored", "Unreadable"}, old : {Zero}, new : {Zero},
          old_path : {"a"}, new_path : {"a"}]

\* What Patch::from_diff(&diff, idx) and patch.line_stats() give for a delta:
\* None when either fails, else the added and deleted line counts.
LineStats == {None, Some(<<1, 0>>), Some(<<2, 1>>)}

\* The deltas of S, each paired with a line-stat extraction of L.
WithLines(S, L) ==
    {[status |-> d.status, old |-> d.old, new |-> d.new, old_path |-> d.old_path,
      new_path |-> d.new_path, lines |-> l] : d \in S, l \in L}

OverCapM(side) == side.exists /\ ~side.binary /\ side.size >= MAX_INLINE_DIFF_BYTES

\* !oid.is_zero() && let Ok(blob) = repo.find_blob(oid) && !blob.is_binary()
\* && blob.size() > MAX_INLINE_DIFF_BYTES, l.703 and l.707
OverCap(side) == side.exists /\ ~side.binary /\ side.size > MAX_INLINE_DIFF_BYTES

\* l.700-708
ContentOmitted(delta) ==
    \/ delta.status # "Added" /\ OverCap(delta.old)
    \/ delta.status # "Deleted" /\ OverCap(delta.new)

\* read_blob_content(..).ok(), l.726-731
ReadBlobContent(side) ==
    IF ~side.exists \/ side.binary \/ ~side.utf8 THEN None ELSE Some([len |-> side.size])

\* l.713-717
ChangeKind(status) ==
    CASE status = "Added" -> "Added"
      [] status = "Deleted" -> "Deleted"
      [] status = "Modified" -> "Modified"
      [] status = "Renamed" -> "Renamed"
      [] status = "Copied" -> "Copied"
      [] status = "Untracked" -> "Added"
      [] OTHER -> "Modified"

\* The Diff pushed for a delta, l.709-719; patch is what the line-stat
\* extraction of l.718 returned.
ToDiff(delta, patch) ==
    LET content_omitted == ContentOmitted(delta) IN
    [change |-> ChangeKind(delta.status),
     old_path |-> IF delta.status = "Added" THEN None ELSE Some(delta.old_path),
     new_path |-> IF delta.status = "Deleted" THEN None ELSE Some(delta.new_path),
     old_content |-> IF content_omitted \/ delta.status = "Added"
                        THEN None ELSE ReadBlobContent(delta.old),
     new_content |-> IF content_omitted \/ delta.status = "Deleted"
                        THEN None ELSE ReadBlobContent(delta.new),
     content_omitted |-> content_omitted,
     additions |-> IF patch = None THEN None ELSE Some(patch[1][1]),
     deletions |-> IF patch = None THEN None ELSE Some(patch[1][2])]

\* let mut delta_index = 0 (l.696), delta_index += 1 after each push (l.720):
\* the counter is the number of Diffs pushed so far.
DeltaIndex == Len(file_diffs)

\* git2::Patch::from_diff(&diff, delta_index) and patch.line_stats(), l.718:
\* the patch of the delta at that position of the diff.
PatchFromDiff(idx) == diff[idx + 1].lines

\* if delta.status() == Delta::Unreadable { return true; }, l.698
Readable(delta) == delta.status # "Unreadable"

CallGetDiffs ==
    /\ gpc = "idle"
    /\ gop' = [NoOp EXCEPT !.name = "get_diffs"]
    /\ gpc' = "f_each"
    /\ file_diffs' = <<>>
    /\ di' = 0
    /\ UNCHANGED <<parents, refs, identity, basewt, taskwt, gres, cmds, diff, listVars,
                   workspaceVars, otherVars>>

\* one call of the diff.foreach callback, l.697-722
ConvertDelta ==
    /\ gpc = "f_each"
    /\ di < Len(diff)
    /\ di' = di + 1
    /\ file_diffs' = IF Readable(diff[di + 1])
                        THEN Append(file_diffs,
                                    ToDiff(diff[di + 1], PatchFromDiff(DeltaIndex)))
                        ELSE file_diffs
    /\ UNCHANGED <<gitVars, diff, listVars, workspaceVars, otherVars>>

\* Ok(file_diffs), l.723
DiffsReturn ==
    /\ gpc = "f_each"
    /\ di = Len(diff)
    /\ GitOk(0)
    /\ UNCHANGED <<parents, refs, identity, basewt, taskwt, gop, cmds, diffVars, listVars,
                   workspaceVars, otherVars>>

NextDiff ==
    \/ CallGetDiffs
    \/ ConvertDelta
    \/ DiffsReturn

InitDiff ==
    /\ InitOther
    /\ InitWorkspaceIdle
    /\ InitGit
    /\ InitList
    /\ diff \in SeqsUpTo(WithLines(Deltas, {Some(<<1, 0>>)}), MaxDeltas)
    /\ di = 0
    /\ file_diffs = <<>>

SpecDiff == InitDiff /\ [][NextDiff]_vars

\* ---------------------------------------------------------- SpecDiff claims

\* The deltas visited so far that produced a Diff.
Kept == SelectSeq(SubSeq(diff, 1, di), Readable)

C19_OmittedIffOverCap ==
    /\ Len(file_diffs) = Len(Kept)
    /\ \A i \in 1..Len(file_diffs) :
         LET d == file_diffs[i]
             delta == Kept[i]
         IN  /\ d.content_omitted <=>
                    \E side \in {delta.old, delta.new} :
                        side.exists /\ ~side.binary /\ side.size > 2 * 1024 * 1024
             /\ d.content_omitted => (d.old_content = None /\ d.new_content = None)
             /\ delta.old.binary => d.old_content = None
             /\ delta.new.binary => d.new_content = None

\* C19 witness: a text blob of exactly 2 MiB changed into a binary blob of
\* 3 MiB: not omitted, the old content present, the new content absent.
C19_Witness ==
    /\ gpc = "done" /\ gop.name = "get_diffs" /\ Len(file_diffs) = 1
    /\ Kept[1].status = "Modified"
    /\ Kept[1].old.size = 2 * 1024 * 1024 /\ ~Kept[1].old.binary
    /\ Kept[1].new.size = 3 * 1024 * 1024 /\ Kept[1].new.binary
    /\ ~file_diffs[1].content_omitted
    /\ file_diffs[1].old_content # None
    /\ file_diffs[1].new_content = None

\* ------------------------------------------- get_all_branches, l.760-805
\* Branch names are sequences of the components "/" separates; the sequences
\* below are in the order repo.branches() iterates.
LocalNames == << <<"main">>, <<"task">> >>
RemoteNames == << <<"origin", "HEAD">>, <<"origin", "main">>, <<"origin", "x", "HEAD">> >>

\* n.ends_with("/HEAD"), l.786
EndsWithHead(name) == Len(name) >= 2 /\ name[Len(name)] = "HEAD"

CmpM(a, b) ==
    IF a.is_current # b.is_current
       THEN IF a.is_current THEN "Less" ELSE "Greater"
       ELSE IF a.date < b.date THEN "Less"
            ELSE IF a.date > b.date THEN "Greater" ELSE "Equal"

\* the comparator of branches.sort_by, l.796-802
Cmp(a, b) ==
    IF a.is_current # b.is_current
       THEN IF a.is_current THEN "Less" ELSE "Greater"
       ELSE IF b.date < a.date THEN "Less"
            ELSE IF b.date > a.date THEN "Greater" ELSE "Equal"

\* x put into the sorted s behind every element that is not greater (stable).
RECURSIVE Insert(_, _)
Insert(s, x) ==
    IF s = <<>> THEN <<x>>
    ELSE IF Cmp(s[Len(s)], x) = "Greater"
            THEN Append(Insert(SubSeq(s, 1, Len(s) - 1), x), s[Len(s)])
            ELSE Append(s, x)

\* slice::sort_by, a stable sort
RECURSIVE SortBy(_)
SortBy(s) ==
    IF s = <<>> THEN <<>>
    ELSE Insert(SortBy(SubSeq(s, 1, Len(s) - 1)), s[Len(s)])

\* The GitBranch pushed for a branch, l.776-781 and l.787-792
GitBranch(b, is_remote) ==
    [name |-> b.name,
     is_current |-> ~is_remote /\ b.name = repo_branches.current,
     is_remote |-> is_remote,
     date |-> b.date]

Pushed(bs, is_remote) == [i \in 1..Len(bs) |-> GitBranch(bs[i], is_remote)]

KeptRemote(b) == ~EndsWithHead(b.name)

CallGetAllBranches ==
    /\ gpc = "idle"
    /\ gop' = [NoOp EXCEPT !.name = "get_all_branches"]
    /\ gpc' = "b_local"
    /\ listed' = <<>>
    /\ UNCHANGED <<parents, refs, identity, basewt, taskwt, gres, cmds, repo_branches,
                   diffVars, workspaceVars, otherVars>>

\* for .. in repo.branches(Some(BranchType::Local)), l.774-783
ListLocal ==
    /\ gpc = "b_local"
    /\ listed' = listed \o Pushed(repo_branches.locals, FALSE)
    /\ gpc' = "b_remote"
    /\ UNCHANGED <<parents, refs, identity, basewt, taskwt, gop, gres, cmds, repo_branches,
                   diffVars, workspaceVars, otherVars>>

\* for .. in repo.branches(Some(BranchType::Remote)), l.784-794
ListRemote ==
    /\ gpc = "b_remote"
    /\ listed' = listed \o Pushed(SelectSeq(repo_branches.remotes, KeptRemote), TRUE)
    /\ gpc' = "b_sort"
    /\ UNCHANGED <<parents, refs, identity, basewt, taskwt, gop, gres, cmds, repo_branches,
                   diffVars, workspaceVars, otherVars>>

\* branches.sort_by(..); Ok(branches), l.796-804
ListSort ==
    /\ gpc = "b_sort"
    /\ listed' = SortBy(listed)
    /\ GitOk(0)
    /\ UNCHANGED <<parents, refs, identity, basewt, taskwt, gop, cmds, repo_branches,
                   diffVars, workspaceVars, otherVars>>

NextBranches ==
    \/ CallGetAllBranches
    \/ ListLocal
    \/ ListRemote
    \/ ListSort

Present(b) == b.date > 0

\* The branches of names, each absent (0) or with a commit time.
BranchLists(names) ==
    {SelectSeq([i \in 1..Len(names) |-> [name |-> names[i], date |-> f[i]]], Present) :
        f \in [1..Len(names) -> 0..MaxDate]}

\* HEAD: on a branch, detached ("HEAD"), or unreadable (unwrap_or_default).
InitBranches ==
    /\ InitOther
    /\ InitWorkspaceIdle
    /\ InitGit
    /\ diff = <<>> /\ di = 0 /\ file_diffs = <<>>
    /\ repo_branches \in [locals : BranchLists(LocalNames),
                          remotes : BranchLists(RemoteNames),
                          current : {<<"main">>, <<"task">>, <<"HEAD">>, <<>>}]
    /\ listed = <<>>

SpecBranches == InitBranches /\ [][NextBranches]_vars

\* ------------------------------------------------------ SpecBranches claims
Range(s) == {s[i] : i \in 1..Len(s)}

RemoteOps == {"fetch", "push", "ls-remote"}

\* let envs = vec![("GIT_TERMINAL_PROMPT", "0")], l.404, l.419, l.429
PromptOff == {<<"GIT_TERMINAL_PROMPT", "0">>}

\* What git_with_env can return (git_impl, l.255-288): git is missing
\* (ensure_available / git_path), the command could not be run or exited
\* non-zero, or it succeeded.
GitImplResults == {"ok", "NotAvailable", "CommandFailed"}

ReclassifyM(op, e) == e

\* The match on git_with_env's result, l.406-410, l.421-425, l.432-436
Reclassify(op, e) ==
    IF e = "ok" THEN "none"
    ELSE IF e = "CommandFailed"
            THEN (IF op = "push" THEN "PushRejected" ELSE "AuthFailed")
    ELSE e

CallRemote == \E op \in RemoteOps : CallGit(op, "x_run")

\* self.git_with_env(repo_path, args, &envs) and the match on its result.  A
\* missing git spawns nothing; Ok of ls-remote carries whether the output was
\* non-empty (in the result's op field).
RemoteRun ==
    /\ gpc = "x_run"
    /\ \E e \in GitImplResults, found \in {"true", "false"} :
           /\ cmds' = IF e = "NotAvailable" THEN cmds
                      ELSE Append(cmds, <<gop.name, e = "ok", PromptOff>>)
           /\ gop' = [gop EXCEPT !.out = <<e>>]
           /\ gres' = [NoResult EXCEPT
                          !.err = Reclassify(gop.name, e),
                          !.op = IF e = "ok" /\ gop.name = "ls-remote" THEN found ELSE "None"]
           /\ gpc' = "done"
    /\ UNCHANGED <<parents, refs, identity, basewt, taskwt, unrelated>>

NextRemote ==
    \/ CallRemote
    \/ RemoteRun

SpecRemote == InitMerge /\ [][NextRemote]_vars

\* ------------------------------------------------------ SpecRemote claims

\* C21: a fetch or ls-remote whose command failed returns AuthFailed and a
\* push whose command failed returns PushRejected, never CommandFailed; a
\* missing git is returned as NotAvailable; a command that succeeded returns
\* Ok; and every command these three run has GIT_TERMINAL_PROMPT=0 in its
\* environment.
C21_RemoteFailuresReclassified ==
    (gop.name \in {"fetch", "push", "ls-remote"} /\ gpc = "done") =>
        /\ gres.err # "CommandFailed"
        /\ gop.out = <<"CommandFailed">> =>
              gres.err = (IF gop.name = "push" THEN "PushRejected" ELSE "AuthFailed")
        /\ gop.out = <<"NotAvailable">> => gres.err = "NotAvailable"
        /\ gop.out = <<"ok">> => gres.err = "none"
        /\ \A i \in 1..Len(cmds) :
              cmds[i][1] = gop.name /\ <<"GIT_TERMINAL_PROMPT", "0">> \in cmds[i][3]
        /\ gop.out # <<"NotAvailable">> => Len(cmds) = 1

\* C21 witness: a push whose command failed has returned PushRejected.
C21_Witness ==
    /\ gop.name = "push" /\ gpc = "done"
    /\ gop.out = <<"CommandFailed">>
    /\ gres.err = "PushRejected"
    /\ cmds = <<<<"push", FALSE, {<<"GIT_TERMINAL_PROMPT", "0">>}>>>>

\* ================================================== workspace crate, continued
\* ------------------------------------------------------------- Spec claims

\* Task t takes a step out of position l.
Leaves(t, l) == pc[t] = l /\ pc'[t] # l

\* ensure_worktree_exists, running for task t, returns with this step.
EnsureReturns(t) ==
    /\ Running(t) = "ensure"
    /\ pc[t] \in {"e_check", "e_add1", "e_add2"}
    /\ res[t] = "none" /\ res'[t] # "none"

\* C22: whenever ensure_worktree_exists returns Ok, by the validity check, by
\* the first `worktree add` or by the retry, the directory exists and the
\* repository has a registration whose back-link is that path.
C22_EnsureOkPresentValid ==
    [][\A t \in Tasks :
          (EnsureReturns(t) /\ res'[t] = "ok")
              => /\ dir'[PathOf(cur[t].path)] # "absent"
                 /\ <<cur[t].repo, PathOf(cur[t].path)>> \in meta']_vars

\* C22 witness: an ensure_worktree_exists call on a path spelled with a
\* trailing separator went through the recreation and returned Ok, and the
\* worktree is there and registered.
C22_Witness ==
    \E t \in Tasks :
        /\ top[t] = "ensure" /\ pc[t] = "done" /\ res[t] = "ok" /\ recreated[t]
        /\ cur[t].path = "a/" /\ cur[t].repo = "r2"
        /\ dir["a"] = "r2" /\ <<"r2", "a">> \in meta

\* C23 (as claimed): within one ensure_worktree_exists call the first
\* `worktree add` is reached once, the second only from the cleared state
\* after the first failed (no registration and no directory left for the
\* path), and a failure of the second attempt or of the directory removal
\* ends the call with an error.
C23_RetriedOnce ==
    [][\A t \in Tasks :
          LET r == cur[t].repo
              d == PathOf(cur[t].path)
          IN  /\ (pc'[t] = "e_add1" /\ pc[t] # "e_add1") => pc[t] = "e_mkparent"
              /\ (pc'[t] = "e_retry_meta" /\ pc[t] # "e_retry_meta") => pc[t] = "e_add1"
              /\ (pc'[t] = "e_add2" /\ pc[t] # "e_add2")
                    => /\ pc[t] = "e_retry_rmdir"
                       /\ dir'[d] = "absent"
                       /\ <<r, d>> \notin meta'
              /\ Leaves(t, "e_add2")
                    => /\ pc'[t] = AfterCall(t)
                       /\ res'[t] \in {"ok", "Git"}
                       /\ res'[t] = "ok" => (dir'[d] = r /\ <<r, d>> \in meta')
              /\ (Leaves(t, "e_retry_rmdir") /\ dir'[d] # "absent")
                    => (pc'[t] = AfterCall(t) /\ res'[t] = "Io")]_vars

WsReturned(t) == top[t] = "workspace" /\ pc[t] = "done" /\ res[t] = "ok"

\* The member's directory is a checkout of its own source repository and that
\* repository has the registration for it.
MemberValid(wt) ==
    /\ dir[PathOf(wt.worktree_path)] = wt.source_repo_path
    /\ <<wt.source_repo_path, PathOf(wt.worktree_path)>> \in meta

C26_RollbackLeavesNoBranch ==
    \A t \in Tasks :
        WsFailed(t) =>
            \A i \in 1..Len(ws[t].created) :
                <<ws[t].created[i].source_repo_path, ws[t].branch>> \notin branches

\* cleanup_worktree, running for task t with a repository path, returns with
\* this step.
CleanupReturns(t) ==
    /\ Running(t) = "cleanup" /\ rrepo[t] # "None"
    /\ pc[t] \in {"cc_open", "cc_remove", "cc_meta", "cc_rmdir", "cc_prune", "sc"}
    /\ res[t] = "none" /\ res'[t] # "none"

\* C27 (as claimed): when cleanup_worktree with a repository path has returned
\* Ok, the repository has no registration whose back-link is the cleaned path.
C27_NoStaleMetadata ==
    \A t \in Tasks :
        (top[t] = "cleanup" /\ pc[t] = "done" /\ res[t] = "ok" /\ rrepo[t] # "None")
            => <<rrepo[t], PathOf(cur[t].path)>> \notin meta

\* C27 (amended): a cleanup_worktree call with a repository path never adds a
\* registration and touches no directory but its own; when it returns Ok the
\* directory is gone, and the registration of the cleaned path is still there
\* only if the closing prune removed nothing.
C27_StaleOnlyIfPruneFailed ==
    [][\A t \in Tasks :
          LET r == rrepo[t]
              d == PathOf(cur[t].path)
          IN  /\ (Running(t) = "cleanup" /\ pc[t] \in MutatingLabels /\ pc'[t] # pc[t])
                    => /\ meta' \subseteq meta
                       /\ \A x \in Dirs : dir'[x] # dir[x] => (x = d /\ dir'[x] = "absent")
              /\ (CleanupReturns(t) /\ res'[t] = "ok")
                    => /\ dir'[d] = "absent"
                       /\ <<r, d>> \in meta' => (pc[t] = "cc_prune" /\ meta' = meta)]_vars

\* C27 witness: cleanup_worktree(a, Some(r1)) returned Ok, the directory is
\* gone and r1 still has the registration for it.
C27_Witness ==
    \E t \in Tasks :
        /\ top[t] = "cleanup" /\ pc[t] = "done" /\ res[t] = "ok"
        /\ rrepo[t] = "r1" /\ PathOf(cur[t].path) = "a"
        /\ dir["a"] = "absent" /\ <<"r1", "a">> \in meta

\* -------------------------------------------------------------- SpecLock
\* NumTasks callers, each making one ensure_worktree_exists or
\* cleanup_worktree call on the same path of r1, under the fairness of the
\* runtime: it keeps polling every task that can take a step, and
\* tokio::sync::Mutex hands the lock to its waiters in turn, so a caller that
\* can go on does go on.
LockCall(t) ==
    \/ /\ Begin(t, "start", "ensure",
                [repo |-> "r1", branch |-> "task", path |-> "a", base |-> "main"],
                "lock_entry")
       /\ UNCHANGED ws
    \/ /\ Begin(t, "start", "cleanup",
                [repo |-> "r1", branch |-> "main", path |-> "a", base |-> "main"],
                "lock_entry")
       /\ UNCHANGED ws

LockStep(t) ==
    \/ LockCall(t)
    \/ LockEntry(t) \/ LockAcquire(t)
    \/ EnsureCheck(t) \/ CleanupResolve(t)
    \/ CleanupOpen(t) \/ CleanupGitRemove(t) \/ CleanupMetadata(t) \/ CleanupRmdir(t)
    \/ CleanupPrune(t)
    \/ EnsureMkParent(t) \/ EnsureAdd1(t) \/ EnsureRetryMeta(t) \/ EnsureRetryRmdir(t)
    \/ EnsureAdd2(t)

NextLock == \E t \in Tasks : LockStep(t)

SpecLock == InitConc /\ [][NextLock]_vars /\ \A t \in Tasks : WF_vars(LockStep(t))

\* C28: the guard is held only inside the locked function, so every return,
\* error returns included, leaves the lock free of the caller; and every call
\* waiting for the lock of its path gets it.
C28_LockReleasedOnEveryExit ==
    /\ [](\A t \in Tasks, k \in Spellings : t \in held[k] => InLocked(t))
    /\ \A t \in Tasks : (pc[t] = "lock_wait") ~> (t \in held[LockKey(cur[t].path)])

\* C28 witness: one call on a path has returned an error, and another caller
\* of the same path holds the lock after it.
C28_Witness ==
    \E t, u \in Tasks :
        /\ t # u
        /\ pc[t] = "done" /\ top[t] \in {"ensure", "cleanup"}
        /\ res[t] \notin {"ok", "none"}
        /\ LockKey(cur[u].path) = LockKey(cur[t].path)
        /\ held[LockKey(cur[t].path)] = {u}

\* C29: the lock table only grows: no step removes an entry, an entry appears
\* only where a call looks up its path, and that lookup leaves the table with
\* exactly the entry of its path added (nothing added when it was there).
C29_LockTableOnlyGrows ==
    [][/\ locks \subseteq locks'
       /\ \A t \in Tasks :
              (pc[t] = "lock_entry" /\ pc'[t] = "lock_wait")
                  => locks' = locks \cup {LockKey(cur[t].path)}
       /\ locks' # locks
              => /\ Cardinality(locks' \ locks) = 1
                 /\ \E t \in Tasks : pc[t] = "lock_entry" /\ pc'[t] = "lock_wait"]_vars

\* C29 witness: calls on the three spellings have returned; each left its
\* entry in the table and no lock is held.
C29_Witness ==
    /\ locks = Spellings
    /\ \A k \in Spellings : held[k] = {}
    /\ \E t \in Tasks : pc[t] = "done" /\ top[t] = "cleanup" /\ res[t] = "ok"

\* A step of ensure_worktree_exists or cleanup_worktree taken by task t.
LockedStep(t) == InLocked(t) /\ pc'[t] # pc[t]

\* C30 (as claimed): a step of ensure_worktree_exists or cleanup_worktree on
\* one path leaves the directory and the registrations of every other path as
\* they were.
C30_OtherPathsUnchanged ==
    [][\A t \in Tasks :
          LockedStep(t) =>
              \A q \in Dirs \ {PathOf(cur[t].path)} :
                  /\ dir'[q] = dir[q]
                  /\ \A r \in Repos : <<r, q>> \in meta' <=> <<r, q>> \in meta]_vars

\* C30 (amended): such a step never changes another path's directory and
\* never adds a registration for it; a registration of another path goes away
\* only in the prune step, only in the repository the call works on, and only
\* when the directory it points to is gone.
C30_OnlyStaleEntriesPruned ==
    [][\A t \in Tasks :
          LockedStep(t) =>
              \A q \in Dirs \ {PathOf(cur[t].path)} :
                  /\ dir'[q] = dir[q]
                  /\ \A r \in Repos :
                         /\ <<r, q>> \in meta' => <<r, q>> \in meta
                         /\ (<<r, q>> \in meta /\ <<r, q>> \notin meta')
                                => /\ pc[t] = "cc_prune"
                                   /\ r = rrepo[t]
                                   /\ dir[q] = "absent"]_vars

\* C30 witness: cleanup_worktree(a, Some(r1)) has returned Ok and removed a,
\* and the valid worktree b of the same repository is as it was.
C30_Witness ==
    \E t \in Tasks :
        /\ top[t] = "cleanup" /\ pc[t] = "done" /\ res[t] = "ok"
        /\ rrepo[t] = "r1" /\ PathOf(cur[t].path) = "a"
        /\ Gone("r1", "a")
        /\ dir["b"] = "r1" /\ <<"r1", "b">> \in meta

\* C31: cleanup_worktree called without a repository path takes the
\* comprehensive cleanup with the repository of the checkout when the
\* directory is a registered worktree of a repository, and the bare directory
\* removal otherwise; the bare removal touches no registration and no other
\* directory, and it returns Ok exactly when the directory is gone afterwards.
C31_InferredOrDirectoryOnly ==
    [][\A t \in Tasks :
          (top[t] = "cleanup" /\ cur[t].repo = "None") =>
            LET d == PathOf(cur[t].path)
                inferable == dir[d] \in Repos /\ <<dir[d], d>> \in meta
            IN  /\ Leaves(t, "c_resolve")
                      => IF inferable
                         THEN rrepo'[t] = dir[d] /\ pc'[t] = "cc_open"
                         ELSE rrepo'[t] = "None" /\ pc'[t] = "sc"
                /\ Leaves(t, "cc_open") => pc'[t] = "cc_remove"
                /\ pc[t] \in {"cc_remove", "cc_meta", "cc_rmdir", "cc_prune"}
                      => rrepo[t] \in Repos
                /\ Leaves(t, "sc")
                      => /\ meta' = meta
                         /\ \A x \in Dirs \ {d} : dir'[x] = dir[x]
                         /\ res'[t] \in {"ok", "Io"}
                         /\ res'[t] = "ok" <=> dir'[d] = "absent"]_vars

\* C31 witness: cleanup_worktree(a, None) inferred r1 from the checkout, ran
\* the comprehensive cleanup and returned Ok with directory and registration
\* gone.
C31_Witness ==
    \E t \in Tasks :
        /\ top[t] = "cleanup" /\ pc[t] = "done" /\ res[t] = "ok"
        /\ cur[t].repo = "None" /\ rrepo[t] = "r1" /\ PathOf(cur[t].path) = "a"
        /\ Gone("r1", "a")

\* ================================================== git-tools crate, continued
\* C32 (as claimed): rebase_branch runs no rebase command on a worktree in
\* which a rebase, a merge, a cherry-pick or a revert was in progress at the
\* call.
C32_NoRebaseOnOperationInProgress ==
    gop.name = "rebase_branch" =>
        ((\E op \in ConflictOps : gop.start.markers[op])
             => Issued("rebase --onto") = {})

\* The abort or quit commands of operation op.
AbortCommands(op) ==
    IF op = "Rebase" THEN {"rebase --abort", "rebase --quit"}
    ELSE IF op = "None" THEN {} ELSE {op}

Lookups == {0} \cup Commits

CallMergeBase == CallGit("merge_base", "mb_fork")

\* self.git(worktree_path, ["merge-base", "--fork-point", a, b]): the receiver
\* of unwrap_or is evaluated first.
MergeBaseForkPoint ==
    /\ gpc = "mb_fork"
    /\ \E fork \in Lookups :
           /\ Ran("merge-base --fork-point", fork # 0)
           /\ gop' = [gop EXCEPT !.out = <<fork>>]
    /\ gpc' = "mb_plain"
    /\ UNCHANGED <<parents, refs, identity, basewt, taskwt, gres, unrelated>>

\* .unwrap_or(self.git(worktree_path, ["merge-base", a, b])?): the argument of
\* unwrap_or is evaluated before unwrap_or looks at the receiver, and its `?`
\* returns from merge_base.
MergeBasePlain ==
    /\ gpc = "mb_plain"
    /\ \E plain \in Lookups :
           /\ Ran("merge-base", plain # 0)
           /\ gop' = [gop EXCEPT !.out = Append(@, plain)]
           /\ IF plain = 0 THEN GitErr("CommandFailed")
              ELSE GitOk(IF gop.out[1] # 0 THEN gop.out[1] ELSE plain)
    /\ UNCHANGED <<parents, refs, identity, basewt, taskwt, unrelated>>

NextMergeBase == CallMergeBase \/ MergeBaseForkPoint \/ MergeBasePlain

SpecMergeBase == InitMerge /\ [][NextMergeBase]_vars

\* C34 (as claimed): merge_base returns the fork-point answer whenever that
\* lookup succeeded and then runs no plain lookup; it runs the plain lookup
\* only after the fork-point lookup failed and then returns its answer; it
\* fails only when both lookups failed.
C34_ForkPointFirst ==
    gop.name = "merge_base" =>
        /\ Issued("merge-base") # {} => (Len(gop.out) >= 1 /\ gop.out[1] = 0)
        /\ gpc = "done" =>
              /\ gop.out[1] # 0 => (gres.err = "none" /\ gres.sha = gop.out[1])
              /\ (gop.out[1] = 0 /\ gop.out[2] # 0)
                    => (gres.err = "none" /\ gres.sha = gop.out[2])
              /\ gres.err # "none" => (gop.out[1] = 0 /\ gop.out[2] = 0)

\* ---------------------------------------------------------------- SpecStats
\* get_diffs on diffs of a few small text changes and unreadable entries, the
\* line-stat extraction of every delta succeeding or failing.
StatDeltas ==
    WithLines({d \in Deltas : /\ d.status \in {"Added", "Modified", "Unreadable"}
                              /\ d.old.exists => (d.old.utf8 /\ d.old.size = 10)
                              /\ d.new.exists => (d.new.utf8 /\ d.new.size = 10)},
              LineStats)

InitStats ==
    /\ InitOther
    /\ InitWorkspaceIdle
    /\ InitGit
    /\ InitList
    /\ diff \in SeqsUpTo(StatDeltas, MaxStatDeltas)
    /\ di = 0
    /\ file_diffs = <<>>

SpecStats == InitStats /\ [][NextDiff]_vars

StagedCodes == {" ", "M", "R", "?"}
UnstagedCodes == {" ", "M", "C", "?"}

Records ==
    {<<x, y, " ", "p">> : x \in StagedCodes, y \in UnstagedCodes}
    \cup {<<>>, <<"o">>, <<"R", " ", " ">>}

\* Mutant: only the staged code is looked at.
IsRenameOrCopyM(staged, unstaged) == staged = "R" \/ staged = "C"

\* staged == 'R' || staged == 'C' || unstaged == 'R' || unstaged == 'C', l.375
IsRenameOrCopy(staged, unstaged) ==
    staged = "R" \/ staged = "C" \/ unstaged = "R" \/ unstaged = "C"

CallGetWorktreeStatus ==
    /\ gpc = "idle"
    /\ gop' = [NoOp EXCEPT !.name = "get_worktree_status"]
    /\ gpc' = "s_run"
    /\ UNCHANGED <<parents, refs, identity, basewt, taskwt, gres, cmds, unrelated>>

\* Self::git_impl(worktree_path, args, None, None)?, l.365
StatusRun ==
    /\ gpc = "s_run"
    /\ \E ok \in BOOLEAN :
           /\ Ran("status --porcelain -z", ok)
           /\ IF ok THEN gpc' = "s_each" /\ UNCHANGED gres
                    ELSE GitErr("CommandFailed")
    /\ UNCHANGED <<parents, refs, identity, basewt, taskwt, gop, unrelated>>

\* One turn of `while let Some(part) = parts.next()`, l.371-386
StatusRecord ==
    /\ gpc = "s_each"
    /\ pn < Len(parts)
    /\ LET part == parts[pn + 1] IN
       IF Len(part) < 4
       THEN pn' = pn + 1 /\ UNCHANGED worktree_status
       ELSE LET staged == part[1]
                unstaged == part[2]
                takes == IsRenameOrCopy(staged, unstaged) /\ pn + 1 < Len(parts)
                is_untracked == staged = "?" /\ unstaged = "?"
                entry == [staged |-> staged, unstaged |-> unstaged,
                          path |-> SubSeq(part, 4, Len(part)),
                          orig_path |-> IF takes THEN Some(parts[pn + 2]) ELSE None,
                          is_untracked |-> is_untracked]
            IN  /\ pn' = IF takes THEN pn + 2 ELSE pn + 1
                /\ worktree_status' =
                       [uncommitted_tracked |->
                            IF ~is_untracked /\ (staged # " " \/ unstaged # " ")
                            THEN worktree_status.uncommitted_tracked + 1
                            ELSE worktree_status.uncommitted_tracked,
                        untracked |-> IF is_untracked THEN worktree_status.untracked + 1
                                      ELSE worktree_status.untracked,
                        entries |-> Append(worktree_status.entries, entry)]
    /\ UNCHANGED <<gitVars, parts, workspaceVars, diffVars, listVars, approvalVars, peerVars>>

\* Ok(WorktreeStatus { .. }), l.388
StatusReturn ==
    /\ gpc = "s_each"
    /\ pn = Len(parts)
    /\ GitOk(0)
    /\ UNCHANGED <<parents, refs, identity, basewt, taskwt, gop, cmds, unrelated>>

NextStatus == CallGetWorktreeStatus \/ StatusRun \/ StatusRecord \/ StatusReturn

InitStatus ==
    /\ InitWorkspaceIdle
    /\ InitGit
    /\ InitPure
    /\ InitApproval
    /\ InitPeer
    /\ parts \in SeqsUpTo(Records, MaxRecords)
    /\ pn = 0
    /\ worktree_status = NoStatus

SpecStatus == InitStatus /\ [][NextStatus]_vars

\* The k-th smallest element of a set of numbers.
Nth(S, k) == CHOOSE i \in S : Cardinality({j \in S : j < i}) = k - 1

\* A status record of a renamed or copied path.
Renamed(rec) == Len(rec) >= 4 /\ (rec[1] \in {"R", "C"} \/ rec[2] \in {"R", "C"})

\* C36: the entries built from the records read so far are, in stream order,
\* the status records among them that are not the original path of a renamed
\* or copied entry before them; a renamed or copied entry has the record after
\* it as orig_path, and no other entry has one; is_untracked marks the entries
\* with both codes '?', untracked counts them, and uncommitted_tracked counts
\* the other entries with a code that is not a space.
C36_StatusEntriesFromRecords ==
    (gop.name = "get_worktree_status" /\ gpc \in {"s_each", "done"} /\ gres.err = "none") =>
        LET entries == worktree_status.entries
            n == Len(entries)
        IN  /\ \E S \in SUBSET (1..pn) :
                   /\ Cardinality(S) = n
                   /\ \A k \in 1..n :
                          LET i == Nth(S, k)
                              rec == parts[i]
                              e == entries[k]
                          IN  /\ Len(rec) >= 4
                              /\ e.staged = rec[1] /\ e.unstaged = rec[2]
                              /\ e.path = SubSeq(rec, 4, Len(rec))
                              /\ e.is_untracked <=> (rec[1] = "?" /\ rec[2] = "?")
                              /\ IF Renamed(rec) /\ i < Len(parts)
                                    THEN /\ e.orig_path = Some(parts[i + 1])
                                         /\ i + 1 <= pn /\ i + 1 \notin S
                                    ELSE e.orig_path = None
                   /\ \A j \in (1..pn) \ S :
                          \/ Len(parts[j]) < 4
                          \/ j > 1 /\ j - 1 \in S /\ Renamed(parts[j - 1])
            /\ worktree_status.untracked
                   = Cardinality({k \in 1..n : entries[k].is_untracked})
            /\ worktree_status.uncommitted_tracked
                   = Cardinality({k \in 1..n :
                                     /\ ~entries[k].is_untracked
                                     /\ entries[k].staged # " " \/ entries[k].unstaged # " "})

\* C36 witness: a staged rename whose original path reads like a status
\* record, then an untracked file: two entries, the first with the second
\* record as orig_path, one tracked change and one untracked file counted.
C36_Witness ==
    /\ gop.name = "get_worktree_status" /\ gpc = "done" /\ gres.err = "none"
    /\ parts = << <<"R", " ", " ", "p">>, <<"M", " ", " ", "p">>, <<"?", "?", " ", "p">> >>
    /\ Len(worktree_status.entries) = 2
    /\ worktree_status.entries[1].orig_path = Some(<<"M", " ", " ", "p">>)
    /\ worktree_status.entries[2].is_untracked
    /\ worktree_status.untracked = 1 /\ worktree_status.uncommitted_tracked = 1

\* ------------------- approvals/manager.rs: ApprovalManager
\* Tool names and list entries are strings, written as sequences of tokens
\* with "::" a token of its own.
ToolNames == {<<"Bash">>, <<"Bash", "::", "run">>, <<"Read">>, <<"Edit">>, <<"Task">>}
ToolEntries == {<<"Bash">>, <<"Read">>, <<"Edit">>}
ApprovalModes == {"Auto", "Manual", "Allow", "Deny"}

\* AgentPermissionConfig, l.17-25, for the one agent id
AgentPermissionConfigs ==
    [enable_file_read : BOOLEAN, enable_file_write : BOOLEAN, enable_network : BOOLEAN,
     tools : SeqsUpTo(ToolEntries, MaxListed), denied_tools : SeqsUpTo(ToolEntries, MaxListed)]

\* impl Default for AgentPermissionConfig, l.27-38
DefaultConfig ==
    [enable_file_read |-> TRUE, enable_file_write |-> TRUE, enable_network |-> TRUE,
     tools |-> <<>>, denied_tools |-> <<>>]

\* str::starts_with
StartsWith(s, prefix) == Len(prefix) <= Len(s) /\ SubSeq(s, 1, Len(prefix)) = prefix

\* tool_name.split("::").next().unwrap_or(tool_name), l.211
Category(tool_name) ==
    LET seps == {i \in 1..Len(tool_name) : tool_name[i] = "::"}
    IN  IF seps = {} THEN tool_name
        ELSE SubSeq(tool_name, 1, (CHOOSE i \in seps : \A j \in seps : i <= j) - 1)

\* config.denied_tools.iter().any(..), l.163
MatchesDenied(config, tool_name) ==
    \E i \in 1..Len(config.denied_tools) :
        StartsWith(tool_name, config.denied_tools[i]) \/ tool_name = config.denied_tools[i]

\* ApprovalManager::check_tool_allowed, l.161-174
CheckToolAllowed(config, tool_name) ==
    IF MatchesDenied(config, tool_name) THEN FALSE
    ELSE IF config.tools = <<>> THEN TRUE
    ELSE \E i \in 1..Len(config.tools) :
             StartsWith(tool_name, config.tools[i]) \/ tool_name = config.tools[i]

\* The category permissions of request_tool_approval, l.210-228
CategoryAllowed(config, tool_name) ==
    LET category == Category(tool_name)
    IN  \/ category \in {<<"Read">>, <<"Glob">>, <<"Grep">>, <<"SearchFiles">>}
           /\ config.enable_file_read
        \/ category \in {<<"Write">>, <<"Edit">>, <<"Create">>, <<"Delete">>}
           /\ config.enable_file_write
        \/ category \in {<<"Bash">>, <<"Tool">>, <<"WebFetch">>, <<"WebSearch">>}
           /\ config.enable_network

\* ApprovalManager::get_approval_mode, l.141-144
GetApprovalMode == IF approval_modes = None THEN "Auto" ELSE approval_modes[1]

\* ApprovalManager::set_approval_mode, l.135-138
SetApprovalMode ==
    /\ \E mode \in ApprovalModes : approval_modes' = Some(mode)
    /\ UNCHANGED <<config_cache, approval, peerVars, statusVars, workspaceVars, gitVars, diffVars,
                   listVars>>

\* ApprovalManager::clear_cache, l.147-150
ClearCache ==
    /\ config_cache # None
    /\ config_cache' = None
    /\ UNCHANGED <<approval_modes, approval, peerVars, statusVars, workspaceVars, gitVars,
                   diffVars, listVars>>

\* cache.insert("agent-1".to_string(), config) into the cache of a new
\* manager, tests::test_tool_check, l.302-303
CacheInsert ==
    /\ config_cache = None
    /\ \E config \in AgentPermissionConfigs : config_cache' = Some(config)
    /\ UNCHANGED <<approval_modes, approval, peerVars, statusVars, workspaceVars, gitVars,
                   diffVars, listVars>>

\* ApprovalManager::load_agent_config, l.76-104, returning config: the cached
\* entry; or the agent's row of the database, which load_from_connection
\* reads with an empty denied_tools and which is cached; or the default.
LoadAgentConfig(config) ==
    IF config_cache # None
    THEN config = config_cache[1] /\ UNCHANGED config_cache
    ELSE \/ config.denied_tools = <<>> /\ config_cache' = Some(config)
         \/ config = DefaultConfig /\ UNCHANGED config_cache

CallApproval(fn) ==
    /\ approval.result # "none"
    /\ \E tool_name \in ToolNames :
           approval' = [fn |-> fn, tool |-> tool_name, result |-> "none"]
    /\ UNCHANGED <<config_cache, approval_modes, peerVars, statusVars, workspaceVars, gitVars,
                   diffVars, listVars>>

CallRequestToolApproval == CallApproval("request_tool_approval")
CallIsToolAutoApproved == CallApproval("is_tool_auto_approved")

\* ExecutorApprovalService::request_tool_approval for ApprovalManager, l.183-243
RequestToolApproval ==
    /\ approval.fn = "request_tool_approval" /\ approval.result = "none"
    /\ LET mode == GetApprovalMode IN
       /\ IF mode = "Auto"
          THEN \E config \in AgentPermissionConfigs :
                   /\ LoadAgentConfig(config)
                   /\ approval' = [approval EXCEPT
                          !.result = IF CheckToolAllowed(config, approval.tool) THEN "Approved"
                                     ELSE IF CategoryAllowed(config, approval.tool) THEN "Approved"
                                     ELSE "Denied"]
          ELSE /\ approval' = [approval EXCEPT
                      !.result = CASE mode = "Allow" -> "Approved"
                                   [] mode = "Deny" -> "Denied"
                                   [] OTHER -> "Pending"]
               /\ UNCHANGED config_cache
    /\ UNCHANGED <<approval_modes, peerVars, statusVars, workspaceVars, gitVars, diffVars,
                   listVars>>

\* ExecutorApprovalService::is_tool_auto_approved for ApprovalManager, l.245-252
IsToolAutoApproved ==
    /\ approval.fn = "is_tool_auto_approved" /\ approval.result = "none"
    /\ approval' = [approval EXCEPT
           !.result = IF config_cache # None /\ CheckToolAllowed(config_cache[1], approval.tool)
                      THEN "true" ELSE "false"]
    /\ UNCHANGED <<config_cache, approval_modes, peerVars, statusVars, workspaceVars, gitVars,
                   diffVars, listVars>>

NextApproval ==
    \/ SetApprovalMode
    \/ ClearCache
    \/ CacheInsert
    \/ CallRequestToolApproval
    \/ CallIsToolAutoApproved
    \/ RequestToolApproval
    \/ IsToolAutoApproved

InitApprovalSpec ==
    /\ InitWorkspaceIdle
    /\ InitGit
    /\ InitPure
    /\ InitStatusIdle
    /\ InitPeer
    /\ InitApproval

SpecApproval == InitApprovalSpec /\ [][NextApproval]_vars

\* An approval query returns in this step.
ApprovalReturns == approval.result = "none" /\ approval'.result # "none"

PeerElsewhere == <<approvalVars, statusVars, workspaceVars, gitVars, diffVars, listVars>>

\* A line of the SDK's stdout: one that parses as an SDKControlRequest, or not.
SdkLines == {"request", "other"}

\* Notify::notify_waiters: wakes the Notified futures that exist now and
\* stores no permit for one created later.
NotifyWaiters == notified' = IF notified = "waiting" THEN "fired" ELSE notified

\* read_loop, l.120-127: the check of the flag at the top of the loop
LoopCheck ==
    /\ loop_pc = "check"
    /\ loop_pc' = IF running THEN "select" ELSE "done"
    /\ UNCHANGED <<running, notified, sdk, stdout, written, sent, handles, made, stop_pc,
                   PeerElsewhere>>

\* read_loop, l.130-131: select! creates shutdown.notified() and the read
LoopSelect ==
    /\ loop_pc = "select"
    /\ loop_pc' = "wait"
    /\ notified' = "waiting"
    /\ UNCHANGED <<running, sdk, stdout, written, sent, handles, made, stop_pc, PeerElsewhere>>

\* read_loop, l.131-134: the shutdown branch of select!
LoopShutdown ==
    /\ loop_pc = "wait"
    /\ notified = "fired"
    /\ loop_pc' = "done"
    /\ notified' = "none"
    /\ UNCHANGED <<running, sdk, stdout, written, sent, handles, made, stop_pc, PeerElsewhere>>

\* read_loop, l.135-150: the read branch of select! with Ok(Some(line)); a
\* control request is sent on request_tx. select! takes any branch that is
\* ready, so a line is read also when the notification has fired.
LoopLine ==
    /\ loop_pc = "wait"
    /\ stdout # <<>>
    /\ sent' = IF Head(stdout) = "request" THEN sent + 1 ELSE sent
    /\ stdout' = Tail(stdout)
    /\ loop_pc' = "check"
    /\ notified' = "none"
    /\ UNCHANGED <<running, sdk, written, handles, made, stop_pc, PeerElsewhere>>

\* read_loop, l.151-158: the read branch of select! with Ok(None), or Err
LoopClosed ==
    /\ loop_pc = "wait"
    /\ stdout = <<>>
    /\ sdk = "closed"
    /\ loop_pc' = "done"
    /\ notified' = "none"
    /\ UNCHANGED <<running, sdk, stdout, written, sent, handles, made, stop_pc, PeerElsewhere>>

\* ProtocolPeer::stop, l.255-258: the flag is cleared
StopSet ==
    /\ stop_pc.at = "idle"
    /\ \E h \in handles : stop_pc' = [at |-> "notify", on |-> h]
    /\ running' = FALSE
    /\ UNCHANGED <<notified, loop_pc, sdk, stdout, written, sent, handles, made, PeerElsewhere>>

\* ProtocolPeer::stop, l.259-261: notify_waiters, and stop() returns
StopNotify ==
    /\ stop_pc.at = "notify"
    /\ NotifyWaiters
    /\ stop_pc' = [stop_pc EXCEPT !.at = "returned"]
    /\ UNCHANGED <<running, loop_pc, sdk, stdout, written, sent, handles, made, PeerElsewhere>>

\* #[derive(Clone)] on ProtocolPeer, l.56: the clone shares every Arc
ClonePeer ==
    /\ handles # {}
    /\ made < MaxClones
    /\ made' = made + 1
    /\ handles' = handles \cup {made + 1}
    /\ UNCHANGED <<running, notified, loop_pc, sdk, stdout, written, sent, stop_pc, PeerElsewhere>>

\* impl Drop for ProtocolPeer, l.270-275, on a handle stop() is not running on
DropPeer ==
    /\ \E h \in handles :
           /\ ~(stop_pc.at = "notify" /\ stop_pc.on = h)
           /\ handles' = handles \ {h}
    /\ NotifyWaiters
    /\ UNCHANGED <<running, loop_pc, sdk, stdout, written, sent, made, stop_pc, PeerElsewhere>>

\* The SDK process writes a line to its stdout.
SdkWrite ==
    /\ sdk = "open"
    /\ written < MaxLines
    /\ \E line \in SdkLines : stdout' = Append(stdout, line)
    /\ written' = written + 1
    /\ UNCHANGED <<running, notified, loop_pc, sdk, sent, handles, made, stop_pc, PeerElsewhere>>

\* The SDK process closes its stdout.
SdkClose ==
    /\ sdk = "open"
    /\ sdk' = "closed"
    /\ UNCHANGED <<running, notified, loop_pc, stdout, written, sent, handles, made, stop_pc,
                   PeerElsewhere>>

LoopStep == LoopCheck \/ LoopSelect \/ LoopShutdown \/ LoopLine \/ LoopClosed

NextPeer ==
    \/ LoopCheck
    \/ LoopSelect
    \/ LoopShutdown
    \/ LoopLine
    \/ LoopClosed
    \/ StopSet
    \/ StopNotify
    \/ ClonePeer
    \/ DropPeer
    \/ SdkWrite
    \/ SdkClose

InitPeerSpec ==
    /\ InitWorkspaceIdle
    /\ InitGit
    /\ InitPure
    /\ InitOther

SpecPeer == InitPeerSpec /\ [][NextPeer]_vars

\* The runtime keeps polling the read loop task while it can take a step, and a
\* stop() that was called runs to its end. Nothing obliges the SDK to write or
\* to close its stdout, nor a caller to stop, clone or drop a handle.
SpecPeerFair ==
    /\ InitPeerSpec
    /\ [][NextPeer]_vars
    /\ WF_vars(LoopStep)
    /\ WF_vars(StopNotify)

\* C38: once stop() has returned the read loop sends no further control
\* request, and it terminates, whatever the SDK does or does not do.
C38_StopStopsTheReadLoop ==
    /\ [][stop_pc.at = "returned" => sent' = sent]_vars
    /\ (stop_pc.at = "returned") ~> (loop_pc = "done")

\* C39: the read loop has terminated only if stop() was called, the SDK's
\* stdout is no longer open, or no clone of the peer is alive.
C39_LoopOutlivesDroppedClone ==
    loop_pc = "done" => (~running \/ sdk # "open" \/ handles = {})

====
